---------------------------- MODULE Spec2Model ----------------------------
(***************************************************************************)
(* Process lifecycle and health reconciliation of the MCP server manager   *)
(* (src/gui/server_manager.py).                                            *)
(*                                                                         *)
(* The model follows ServerManager: the foreground calls start_server and  *)
(* stop_server, the launcher thread _start_server_thread, the stop thread  *)
(* _stop_server_thread and the reconciliation pass check_servers_status,   *)
(* which the GUI runs in a thread of its own.  The code takes no lock, so  *)
(* the threads interleave: a thread is cut into steps at its blocking      *)
(* calls (spawning, waiting on a process, signalling, scanning the process *)
(* table); the plain assignments between two blocking calls, together with *)
(* the _notify_status_changed call that follows them, form one step.       *)
(***************************************************************************)
EXTENDS Integers, Sequences, FiniteSets, Bags, TLC

(***************************************************************************)
(* Bounds of the model.                                                    *)
(***************************************************************************)
\* number of OS process ids the process table can ever hand out
MaxPid == 2
\* number of launcher threads alive at the same time
MaxLaunch == 1
\* number of stop threads alive at the same time
MaxStop == 1

(***************************************************************************)
(* class ServerStatus.  "Em execucao" stands for the accented constant of  *)
(* the source.                                                             *)
(***************************************************************************)
STOPPED == "Parado"
RUNNING == "Em execucao"
STARTING == "Iniciando"
STOPPING == "Parando"
ERROR == "Erro"
ServerStatus == {STOPPED, RUNNING, STARTING, STOPPING, ERROR}

\* the registry self.servers, in list order
servers == <<"demo">>
Names == {servers[i] : i \in 1..Len(servers)}

Pids == 1..MaxPid

(***************************************************************************)
(* Server.process: None, the subprocess.Popen object of a launch, or the   *)
(* DummyProcess(pid) a reconciliation pass binds.  A DummyProcess has a    *)
(* pid and nothing else (no stdout, wait, poll, terminate).                *)
(***************************************************************************)
None == [kind |-> "None", pid |-> 0]
Popen(p) == [kind |-> "Popen", pid |-> p]
DummyProcess(p) == [kind |-> "Dummy", pid |-> p]

(***************************************************************************)
(* Exit codes.  A process that ends by itself returns 0 or 1; terminate()  *)
(* ends it with 15 where the platform passes the signal number as the exit *)
(* code and with -15 where a signal death is reported negated; kill()      *)
(* likewise with 15 or -9.                                                 *)
(***************************************************************************)
SelfCodes == {0, 1}
TermCodes == {15, -15}
KillCodes == {15, -9}
ExtCodes == {-9}

\* An entry of the OS process table.  st is free (pid never used), alive or
\* dead (ended; a zombie until reaped); srv is the server whose script the
\* command line names; name is "python" when the process name contains
\* python (the filter of the pass) and "wrapper" otherwise (uv run
\* script.py); child tells a process this run spawned with Popen, the only
\* kind whose exit code a thread of this run can read; by is what ended it;
\* ppid is the pid of the process that spawned it, 0 when that process is
\* none of the table (psutil's ppid, line 1167).
NoProc ==
  [st |-> "free", name |-> "-", srv |-> "-", child |-> FALSE, rc |-> 0,
   by |-> "-", ppid |-> 0]
LiveProc(nm, s, ch) ==
  [st |-> "alive", name |-> nm, srv |-> s, child |-> ch, rc |-> 0, by |-> "-",
   ppid |-> 0]
\* a process spawned by process parent
ChildProc(nm, s, parent) == [LiveProc(nm, s, FALSE) EXCEPT !.ppid = parent]
Dead(pr, code, cause) ==
  [pr EXCEPT !.st = "dead", !.name = "-", !.rc = IF pr.child THEN code ELSE 0,
             !.by = IF pr.child THEN cause ELSE "-"]

VARIABLES
  status,     \* Server.status of each definition
  process,    \* Server.process of each definition
  saved,      \* the status column of the persisted servers.json
  procs,      \* the OS process table
  launchers,  \* bag of running _start_server_thread threads
  stoppers,   \* bag of running _stop_server_thread threads
  pass,       \* the thread running check_servers_status
  ret,        \* what the call made by the last step returned
  events,     \* the notifications the listener got in the last step
  callback,   \* ServerManager.on_server_status_changed
  restarter,  \* the thread running App._restart_server_thread
  registry,   \* ServerManager.servers: the definitions, in list order
  regfile,    \* the definitions persisted in servers.json
  boot,       \* "import" while __init__ reads the client files, else "run"
  arg,        \* the input of the function a specification applies
  res,        \* what the function returned for arg
  disk,       \* the characters of servers.json on the disk
  savers,     \* bag of save_json_file calls in progress
  logs,       \* the log files of the directory self.log_dir
  buffer      \* Server.logs of a definition and the _add_log calls on it

vars == <<status, process, saved, procs, launchers, stoppers, pass, ret, events,
          callback, restarter, registry, regfile, boot, arg, res,
          disk, savers, logs, buffer>>

\* what start_server, stop_server, their threads, the pass and the
\* environment leave alone
\* the state outside the servers and the registry
io == <<disk, savers, logs, buffer>>

more == <<boot, arg, res, io>>

\* no function applied
Nothing == [kind |-> "none"]

aside == <<callback, restarter, registry, regfile, more>>

\* on_server_status_changed is the listener of the GUI (src/gui/app.py line
\* 84) or the on_stop_complete closure of restart_server
Listener == "listener"
OnStopComplete == "on_stop_complete"

\* no restart thread
IdleRestart == [pc |-> "idle", name |-> "-", polls |-> 0]

\* the value call f on name n returned; NoRet when the last step was not a
\* return
Returns(f, n, v) == [of |-> f, name |-> n, val |-> v]
NoRet == Returns("none", "-", FALSE)
IdlePass == [pc |-> "idle", idx |-> 0, prev |-> "-", alive |-> FALSE,
             found |-> 0, snap |-> {}, changes |-> <<>>]

One(r) == SetToBag({r})
Threads(b) == BagToSet(b)

IsAlive(p) == p \in Pids /\ procs[p].st = "alive"
FreePids == {p \in Pids : procs[p].st = "free"}
MinOf(S) == CHOOSE x \in S : \A y \in S : x <= y

\* processo.children(recursive=True), line 794: the live processes of table
\* tbl that descend from root
RECURSIVE Below(_, _, _)
Below(tbl, S, n) ==
  LET kids == {p \in Pids : tbl[p].st = "alive" /\ tbl[p].ppid \in S}
  IN IF n = 0 \/ kids \subseteq S THEN S ELSE Below(tbl, S \cup kids, n - 1)
Children(tbl, root) == Below(tbl, {root}, MaxPid) \ {root}

(***************************************************************************)
(* ServerManager.__init__ on a fresh configuration directory with one      *)
(* definition registered: Server.__init__ sets STOPPED and no process.     *)
(***************************************************************************)
(***************************************************************************)
(* The registry.  A definition is a record of its name, its script_path    *)
(* and the source of its original_config ("none" when it has none).        *)
(***************************************************************************)
RegNames == {"demo", "echo"}
Scripts == {"a.py", "b.py"}
Sources == {"none", "client"}
Definitions == [name : RegNames, script : Scripts, source : Sources]

\* Server.to_dict, lines 76-88: original_config is not written
ToDict(e) == [name |-> e.name, script |-> e.script]

\* Server.from_dict, lines 90-105, as far as the definition goes
ServerFromDict(d) == [name |-> d.name, script |-> d.script, source |-> "none"]

\* _save_servers, lines 228-233
SaveServers(reg) == [i \in 1..Len(reg) |-> ToDict(reg[i])]

\* _load_servers, lines 143-148
LoadFile(file) == [i \in 1..Len(file) |-> ServerFromDict(file[i])]

\* lines 38-42: the number of characters of a status
StatusLen(st) ==
  CASE st = STOPPED -> 6
    [] st = RUNNING -> 11
    [] st = STARTING -> 9
    [] st = STOPPING -> 7
    [] st = ERROR -> 4

\* json.dump of the list built at line 232, as far as the status column
\* goes: the brackets and, for every server, the characters of its status
RECURSIVE FileText(_, _)
FileText(st, i) ==
  IF i > Len(servers) THEN <<"]">>
  ELSE (IF i = 1 THEN <<"[">> ELSE <<",">>)
         \o [k \in 1..StatusLen(st[servers[i]]) |-> <<st[servers[i]], k>>]
         \o FileText(st, i + 1)

\* the default of max_logs
max_logs == 1000

\* the threads that write to the log of a server: its launcher thread and
\* a stop thread
AddLogThreads == {"launcher", "stopper"}

\* the last min(n, max_logs) of the entries 1..n
LastEntries(n) ==
  [i \in 1..(IF n > max_logs THEN max_logs ELSE n) |->
     i + (IF n > max_logs THEN n - max_logs ELSE 0)]

\* Server.logs after n entries added by the launcher thread, no call going on
BufferAfter(n) ==
  [logs |-> LastEntries(n), added |-> n, who |-> {},
   pc |-> [t \in AddLogThreads |-> "idle"],
   tmp |-> [t \in AddLogThreads |-> <<>>]]

InitState ==
  /\ logs = {}
  /\ disk = FileText([s \in Names |-> STOPPED], 1)
  /\ savers = EmptyBag
  /\ registry = [i \in 1..Len(servers) |->
                   [name |-> servers[i], script |-> "a.py", source |-> "none"]]
  /\ regfile = SaveServers(registry)
  /\ status = [s \in Names |-> STOPPED]
  /\ process = [s \in Names |-> None]
  /\ saved = [s \in Names |-> STOPPED]
  /\ procs = [p \in Pids |-> NoProc]
  /\ launchers = EmptyBag
  /\ stoppers = EmptyBag
  /\ pass = IdlePass
  /\ ret = NoRet
  /\ events = <<>>
  /\ callback = Listener
  /\ restarter = IdleRestart
  /\ boot = "run"

Init ==
  /\ InitState
  /\ buffer = BufferAfter(0)
  /\ arg = Nothing
  /\ res = Nothing

(***************************************************************************)
(* _notify_status_changed(server): the listener is called with the name    *)
(* and the status the server has at that moment, then _save_servers        *)
(* rewrites the file from the status of every server.  st is the status    *)
(* function after the assignments of the step.                             *)
(***************************************************************************)
NotifyWith(cb, s, st) ==
  /\ events' = IF cb = Listener THEN <<<<s, st[s]>>>> ELSE <<>>
  /\ saved' = st

\* the file is saved and no listener is called
NotifyNobody(s, st) == NotifyWith("nobody", s, st)

NotifyStatusChanged(s, st) == NotifyWith(callback, s, st)

Quiet ==
  /\ events' = <<>>
  /\ UNCHANGED saved


(***************************************************************************)
(* start_server(server_name), called on the GUI thread with the name of a  *)
(* registered server.  exists is the answer of                             *)
(* os.path.exists(server.script_path).                                     *)
(***************************************************************************)
\* line 416 with STARTING left out of the list
StartRefusedRunningOnly(st) == st = RUNNING

\* line 416: the statuses for which the request is refused
StartRefused(st) == st \in {RUNNING, STARTING}

NewLauncher(s) == [srv |-> s, pc |-> "spawn", pid |-> 0, br |-> "-"]

StartServerRefused(s) ==
  /\ StartRefused(status[s])
  /\ ret' = Returns("start_server", s, FALSE)
  /\ Quiet
  /\ UNCHANGED <<status, process, procs, launchers, stoppers, pass>>

StartServerNoScript(s) ==
  /\ ~StartRefused(status[s])
  /\ status' = [status EXCEPT ![s] = ERROR]
  /\ NotifyStatusChanged(s, status')
  /\ ret' = Returns("start_server", s, FALSE)
  /\ UNCHANGED <<process, procs, launchers, stoppers, pass>>

StartServerAccepted(s) ==
  /\ ~StartRefused(status[s])
  /\ BagCardinality(launchers) < MaxLaunch
  /\ status' = [status EXCEPT ![s] = STARTING]
  /\ NotifyStatusChanged(s, status')
  /\ launchers' = launchers (+) One(NewLauncher(s))
  /\ ret' = Returns("start_server", s, TRUE)
  /\ UNCHANGED <<process, procs, stoppers, pass>>

\* what the call does to the manager
StartServerCall(s, exists) ==
  \/ StartServerRefused(s)
  \/ ~exists /\ StartServerNoScript(s)
  \/ exists /\ StartServerAccepted(s)

StartServer(s, exists) ==
  \/ StartServerRefused(s) /\ UNCHANGED aside
  \/ ~exists /\ StartServerNoScript(s) /\ UNCHANGED aside
  \/ exists /\ StartServerAccepted(s) /\ UNCHANGED aside

(***************************************************************************)
(* stop_server(server_name), called on the GUI thread with the name of a   *)
(* registered server.                                                      *)
(***************************************************************************)
\* line 728 with ERROR let through
StopRefusedButError(st) == st \notin {RUNNING, STARTING, ERROR}

\* line 728: the statuses for which the request is refused
StopRefused(st) == st \notin {RUNNING, STARTING}

NewStopper(s) == [srv |-> s, pc |-> "begin", pid |-> 0]

StopServerRefused(s) ==
  /\ StopRefused(status[s])
  /\ ret' = Returns("stop_server", s, FALSE)
  /\ Quiet
  /\ UNCHANGED <<status, process, procs, launchers, stoppers, pass>>

StopServerAccepted(s) ==
  /\ ~StopRefused(status[s])
  /\ BagCardinality(stoppers) < MaxStop
  /\ status' = [status EXCEPT ![s] = STOPPING]
  /\ NotifyStatusChanged(s, status')
  /\ stoppers' = stoppers (+) One(NewStopper(s))
  /\ ret' = Returns("stop_server", s, TRUE)
  /\ UNCHANGED <<process, procs, launchers, pass>>

\* what the call does to the manager
StopServerCall(s) ==
  \/ StopServerRefused(s)
  \/ StopServerAccepted(s)

StopServer(s) ==
  \/ StopServerRefused(s) /\ UNCHANGED aside
  \/ StopServerAccepted(s) /\ UNCHANGED aside

(***************************************************************************)
(* _start_server_thread(server).  A launcher thread is a record            *)
(*   srv  the server it was started for                                    *)
(*   pc   spawn: before subprocess.Popen (lines 453-576)                   *)
(*        read:  blocked in the loop over the output stream (line 584)     *)
(*        wait:  blocked in server.process.wait() (line 593)               *)
(*        fin:   about to write the exit status (lines 603-618)            *)
(*        exc:   in the except handler (lines 620-634)                     *)
(*   pid  the process whose stream it reads or on which it waits           *)
(*   br   the status the branch of lines 596-613 chose                     *)
(***************************************************************************)
Move(b, r, r2) == (b (-) One(r)) (+) One(r2)

\* lines 568-584: Popen succeeds; the handle, RUNNING, the notification, and
\* the thread starts to read the stream of the Popen object it stored
LaunchSpawn(r) ==
  /\ r.pc = "spawn"
  /\ FreePids # {}
  /\ LET p == MinOf(FreePids) IN
       \E nm \in {"python", "wrapper"} :
         /\ procs' = [procs EXCEPT ![p] = LiveProc(nm, r.srv, TRUE)]
         /\ process' = [process EXCEPT ![r.srv] = Popen(p)]
         /\ status' = [status EXCEPT ![r.srv] = RUNNING]
         /\ NotifyStatusChanged(r.srv, status')
         /\ launchers' = Move(launchers, r, [r EXCEPT !.pc = "read", !.pid = p])
  /\ ret' = NoRet
  /\ UNCHANGED <<stoppers, pass>>
  /\ UNCHANGED aside

\* lines 453-576: opening the log file or Popen raises
LaunchSpawnFails(r) ==
  /\ r.pc = "spawn"
  /\ launchers' = Move(launchers, r, [r EXCEPT !.pc = "exc"])
  /\ ret' = NoRet
  /\ Quiet
  /\ UNCHANGED <<status, process, procs, stoppers, pass>>
  /\ UNCHANGED aside

\* lines 584-593: end of the stream once the process is gone, then
\* server.process is read again for wait()
LaunchEof(r) ==
  /\ r.pc = "read"
  /\ ~IsAlive(r.pid)
  /\ launchers' = Move(launchers, r,
        IF process[r.srv].kind = "Popen"
          THEN [r EXCEPT !.pc = "wait", !.pid = process[r.srv].pid]
          ELSE [r EXCEPT !.pc = "exc"])
  /\ ret' = NoRet
  /\ Quiet
  /\ UNCHANGED <<status, process, procs, stoppers, pass>>
  /\ UNCHANGED aside

\* lines 596-613: the status the exit code maps to, given the status read
\* at line 598
ExitStatus(return_code, st) ==
  IF return_code # 0
    THEN IF return_code = 15 /\ st = STOPPING THEN STOPPED ELSE ERROR
    ELSE STOPPED

\* line 593 returns; lines 596-598 choose the branch
LaunchWait(r) ==
  /\ r.pc = "wait"
  /\ ~IsAlive(r.pid)
  /\ launchers' = Move(launchers, r,
        [r EXCEPT !.pc = "fin", !.br = ExitStatus(procs[r.pid].rc, status[r.srv])])
  /\ ret' = NoRet
  /\ Quiet
  /\ UNCHANGED <<status, process, procs, stoppers, pass>>
  /\ UNCHANGED aside

\* lines 603/608/613 and 616-618
LaunchFin(r) ==
  /\ r.pc = "fin"
  /\ status' = [status EXCEPT ![r.srv] = r.br]
  /\ process' = [process EXCEPT ![r.srv] = None]
  /\ NotifyStatusChanged(r.srv, status')
  /\ launchers' = launchers (-) One(r)
  /\ ret' = NoRet
  /\ UNCHANGED <<procs, stoppers, pass>>
  /\ UNCHANGED aside

\* lines 620-634
LaunchExc(r) ==
  /\ r.pc = "exc"
  /\ status' = [status EXCEPT ![r.srv] = ERROR]
  /\ process' = [process EXCEPT ![r.srv] = None]
  /\ NotifyStatusChanged(r.srv, status')
  /\ launchers' = launchers (-) One(r)
  /\ ret' = NoRet
  /\ UNCHANGED <<procs, stoppers, pass>>
  /\ UNCHANGED aside

StartServerThread(r) ==
  \/ LaunchSpawn(r)
  \/ LaunchSpawnFails(r)
  \/ LaunchEof(r)
  \/ LaunchWait(r)
  \/ LaunchFin(r)
  \/ LaunchExc(r)

(***************************************************************************)
(* _stop_server_thread(server).  A stop thread is a record                 *)
(*   srv  the server it stops                                              *)
(*   pc   begin: about to test server.process (lines 757-771)              *)
(*        term:  about to terminate the process (lines 775-783)            *)
(*        kill:  the 5 second wait timed out (lines 786-789)               *)
(*        sweep: about to sweep the processes naming the script (862-890)  *)
(*        fin:   about to write STOPPED (lines 892-896 or 913-915)         *)
(*   pid  the pid read at line 771                                         *)
(***************************************************************************)
\* lines 757-771: no handle, nothing to signal; otherwise the pid to signal
StopBegin(r) ==
  /\ r.pc = "begin"
  /\ stoppers' = Move(stoppers, r,
        IF process[r.srv].kind = "None"
          THEN [r EXCEPT !.pc = "sweep"]
          ELSE [r EXCEPT !.pc = "term", !.pid = process[r.srv].pid])
  /\ ret' = NoRet
  /\ Quiet
  /\ UNCHANGED <<status, process, procs, launchers, pass>>
  /\ UNCHANGED aside

\* lines 792-816, run after the root was signalled: children() raises for a
\* root that is gone, or finds no child of it any more, and the handler of
\* line 815 passes; otherwise every child found is terminated, killed after
\* 3 seconds, or left when signalling it raises (lines 803, 813).  The
\* result is the set of process tables the block can leave.
StopChildren(tbl, root) ==
  LET kids == Children(tbl, root)
  IN {tbl} \cup
     { [p \in Pids |-> IF p \in kids /\ out[p] # "spared"
                         THEN Dead(tbl[p], 15, out[p]) ELSE tbl[p]] :
         out \in [kids -> {"term", "kill", "spared"}] }

\* lines 775-783 and the handlers of lines 841-860: the process is already
\* gone (NoSuchProcess), it ends within the timeout, it does not respond, or
\* signalling it is denied (the fallback of lines 850-856 ends it only
\* through a Popen object)
StopTerm(r) ==
  /\ r.pc = "term"
  /\ \/ /\ ~IsAlive(r.pid)
        /\ stoppers' = Move(stoppers, r, [r EXCEPT !.pc = "sweep"])
        /\ UNCHANGED procs
     \/ /\ IsAlive(r.pid)
        /\ \E code \in TermCodes :
             procs' \in StopChildren([procs EXCEPT ![r.pid] = Dead(@, code, "term")],
                                    r.pid)
        /\ stoppers' = Move(stoppers, r, [r EXCEPT !.pc = "sweep"])
     \/ /\ IsAlive(r.pid)
        /\ stoppers' = Move(stoppers, r, [r EXCEPT !.pc = "kill"])
        /\ UNCHANGED procs
     \/ /\ IsAlive(r.pid)
        /\ stoppers' = Move(stoppers, r, [r EXCEPT !.pc = "sweep"])
        /\ \/ UNCHANGED procs
           \/ /\ process[r.srv] = Popen(r.pid)
              /\ \E code \in TermCodes \cup KillCodes :
                   procs' = [procs EXCEPT ![r.pid] =
                               Dead(@, code, IF code \in TermCodes THEN "term" ELSE "kill")]
  /\ ret' = NoRet
  /\ Quiet
  /\ UNCHANGED <<status, process, launchers, pass>>
  /\ UNCHANGED aside

\* a stop thread that waits, without a timeout, for the process to end
StopKillWaits(r) ==
  /\ r.pc = "kill"
  /\ ~IsAlive(r.pid)
  /\ stoppers' = Move(stoppers, r, [r EXCEPT !.pc = "sweep"])
  /\ ret' = NoRet
  /\ Quiet
  /\ UNCHANGED <<status, process, procs, launchers, pass>>
  /\ UNCHANGED aside

\* lines 786-789: forced kill of the process that did not respond; when it
\* ended meanwhile kill() raises NoSuchProcess (line 841)
StopKill(r) ==
  /\ r.pc = "kill"
  /\ IF IsAlive(r.pid)
       THEN \E code \in KillCodes :
              procs' \in StopChildren([procs EXCEPT ![r.pid] = Dead(@, code, "kill")],
                                     r.pid)
       ELSE UNCHANGED procs
  /\ stoppers' = Move(stoppers, r, [r EXCEPT !.pc = "sweep"])
  /\ ret' = NoRet
  /\ Quiet
  /\ UNCHANGED <<status, process, launchers, pass>>
  /\ UNCHANGED aside

\* line 874: the command line names the script of the server
MatchesScript(p, s) == procs[p].srv = s

\* lines 862-890: every live process naming the script is terminated,
\* killed after 3 seconds, or left when signalling it raises
StopSweep(r) ==
  /\ r.pc = "sweep"
  /\ LET victims == {p \in Pids : IsAlive(p) /\ MatchesScript(p, r.srv)} IN
       \E out \in [victims -> {"sweep_term", "sweep_kill", "spared"}] :
         \E code \in [victims -> TermCodes \cup KillCodes] :
           /\ \A p \in victims :
                /\ out[p] = "sweep_term" => code[p] \in TermCodes
                /\ out[p] = "sweep_kill" => code[p] \in KillCodes
                /\ out[p] = "spared" => code[p] = 15
           /\ procs' = [p \in Pids |->
                          IF p \in victims /\ out[p] # "spared"
                            THEN Dead(procs[p], code[p], out[p])
                            ELSE procs[p]]
  /\ stoppers' = Move(stoppers, r, [r EXCEPT !.pc = "fin"])
  /\ ret' = NoRet
  /\ Quiet
  /\ UNCHANGED <<status, process, launchers, pass>>
  /\ UNCHANGED aside

\* lines 892-896 (and 913-915)
StopFin(r) ==
  /\ r.pc = "fin"
  /\ status' = [status EXCEPT ![r.srv] = STOPPED]
  /\ process' = [process EXCEPT ![r.srv] = None]
  /\ NotifyStatusChanged(r.srv, status')
  /\ stoppers' = stoppers (-) One(r)
  /\ ret' = NoRet
  /\ UNCHANGED <<procs, launchers, pass>>
  /\ UNCHANGED aside

StopServerThread(r) ==
  \/ StopBegin(r)
  \/ StopTerm(r)
  \/ StopKill(r)
  \/ StopSweep(r)
  \/ StopFin(r)

(***************************************************************************)
(* check_servers_status(), run by the thread App.refresh_servers starts.   *)
(* The pass is a record                                                    *)
(*   pc       idle, check (lines 1037-1051 of the server at idx), update   *)
(*            (lines 1055-1088 of that server; after the last server the   *)
(*            pass returns status_changes, line 1093)                      *)
(*   idx      position in self.servers                                     *)
(*   prev     previous_status (line 1037)                                  *)
(*   alive    is_running after the check by pid (lines 1043-1051)          *)
(*   found    the pid the scan of lines 1059-1077 stops at, 0 for none;    *)
(*            the scan reads only python_processes, so its result is fixed *)
(*            once the check by pid is made                                *)
(*   snap     python_processes: the pids collected at lines 1026-1029,     *)
(*            kept while a server is still to be scanned                   *)
(*   changes  status_changes                                               *)
(***************************************************************************)
\* lines 1020-1033: processes whose name contains python
PassStart ==
  /\ pass.pc = "idle"
  /\ pass' = [IdlePass EXCEPT !.pc = "check", !.idx = 1,
                !.snap = {p \in Pids : IsAlive(p) /\ procs[p].name = "python"}]
  /\ ret' = NoRet
  /\ Quiet
  /\ UNCHANGED <<status, process, procs, launchers, stoppers>>
  /\ UNCHANGED aside

\* lines 1043-1051: the handle's pid exists and is not a zombie
PidRunning(h) == h.kind # "None" /\ h.pid # 0 /\ IsAlive(h.pid)

\* a scan made whether or not the check by pid succeeded
ScriptMatchAlways(snap, s, alive) ==
  LET matches == {p \in snap : MatchesScript(p, s)}
  IN IF matches # {} THEN MinOf(matches) ELSE 0

\* lines 1055-1077: the first snapshot entry naming the script (process_iter
\* yields the processes in pid order), looked for only when the check by pid
\* failed
ScriptMatch(snap, s, alive) ==
  LET matches == {p \in snap : MatchesScript(p, s)}
  IN IF ~alive /\ matches # {} THEN MinOf(matches) ELSE 0

PassCheck ==
  /\ pass.pc = "check"
  /\ LET s == servers[pass.idx]
         alive == PidRunning(process[s])
     IN pass' = [pass EXCEPT !.pc = "update", !.prev = status[s], !.alive = alive,
                   !.found = ScriptMatch(pass.snap, s, alive),
                   !.snap = IF pass.idx = Len(servers) THEN {} ELSE @]
  /\ ret' = NoRet
  /\ Quiet
  /\ UNCHANGED <<status, process, procs, launchers, stoppers>>
  /\ UNCHANGED aside

\* a pass that only ever marks definitions Running
ReconciledUpOnly(is_running, st) ==
  IF is_running /\ st # RUNNING THEN RUNNING ELSE st

\* lines 1046-1049: the query of the handle's pid raises an error that is
\* none of NoSuchProcess, AccessDenied and ZombieProcess; no handler of
\* check_servers_status catches it and the call ends with the exception
PassCheckRaises ==
  /\ pass.pc = "check"
  /\ LET s == servers[pass.idx]
     IN process[s].kind # "None" /\ process[s].pid # 0
  /\ pass' = IdlePass
  /\ ret' = Returns("check_servers_status raises", "-", <<>>)
  /\ Quiet
  /\ UNCHANGED <<status, process, procs, launchers, stoppers>>
  /\ UNCHANGED aside

\* lines 1080-1088: the status the pass leaves
Reconciled(is_running, st) ==
  IF is_running /\ st # RUNNING THEN RUNNING
  ELSE IF ~is_running /\ st # STOPPED THEN STOPPED
  ELSE st

\* lines 1071 and 1086: the handle the pass leaves
Rebound(h, is_running, found, st) ==
  IF found # 0 THEN DummyProcess(found)
  ELSE IF ~is_running /\ st # STOPPED THEN None
  ELSE h

PassUpdate ==
  /\ pass.pc = "update"
  /\ LET s == servers[pass.idx]
         is_running == pass.alive \/ pass.found # 0
         new == Reconciled(is_running, status[s])
         status_changes == IF new # status[s]
                             THEN Append(pass.changes, <<s, pass.prev, new>>)
                             ELSE pass.changes
     IN
       /\ process' = [process EXCEPT ![s] = Rebound(@, is_running, pass.found, status[s])]
       /\ status' = [status EXCEPT ![s] = new]
       /\ IF new # status[s] THEN NotifyStatusChanged(s, status') ELSE Quiet
       /\ IF pass.idx = Len(servers)
            THEN /\ pass' = IdlePass
                 /\ ret' = Returns("check_servers_status", "-", status_changes)
            ELSE /\ pass' = [pass EXCEPT !.pc = "check", !.idx = @ + 1,
                               !.changes = status_changes]
                 /\ ret' = NoRet
  /\ UNCHANGED <<procs, launchers, stoppers>>
  /\ UNCHANGED aside

CheckServersStatus ==
  \/ PassStart
  \/ PassCheck
  \/ PassCheckRaises
  \/ PassUpdate

(***************************************************************************)
(* ServerManager.__init__ of a new run of the application: _load_servers   *)
(* builds every Server from servers.json, status included; the handles and *)
(* the daemon threads of the previous run are gone, the OS processes are   *)
(* not: they are no longer children of the application, and the exit code  *)
(* of one that ended can no longer be read.                                *)
(***************************************************************************)
Orphan(pr) ==
  IF pr.st = "free" THEN pr
  ELSE IF pr.st = "alive" THEN [pr EXCEPT !.child = FALSE]
  ELSE [pr EXCEPT !.child = FALSE, !.rc = 0, !.by = "-"]

\* Server.from_dict, line 103
FromDict(st) == st

\* a definition of the list has the name n (lines 247-248, 167, 351-353)
NameTakenByFirst(reg, n) == reg # <<>> /\ reg[1].name = n

NameTaken(reg, n) == \E i \in 1..Len(reg) : reg[i].name = n

\* add_server, lines 247-258, as far as the list goes
AddServerTo(reg, e) == IF NameTaken(reg, e.name) THEN reg ELSE Append(reg, e)

\* _load_client_config_servers, lines 158-201: every entry of the client
\* files whose name is not taken (line 167) is added without saving
RECURSIVE Import(_, _)
Import(reg, entries) ==
  IF entries = <<>> THEN reg
  ELSE Import(IF NameTaken(reg, Head(entries).name)
                THEN reg ELSE AddServerTo(reg, Head(entries)),
              Tail(entries))

\* imp: the entries of the Cursor and Claude Desktop files, in file order
NewManager(imp) ==
  /\ registry' = Import(LoadFile(regfile), imp)
  /\ UNCHANGED regfile
  /\ status' = [s \in Names |-> FromDict(saved[s])]
  /\ process' = [s \in Names |-> None]
  /\ launchers' = EmptyBag
  /\ stoppers' = EmptyBag
  /\ pass' = IdlePass
  /\ procs' = [p \in Pids |-> Orphan(procs[p])]
  /\ callback' = Listener
  /\ restarter' = IdleRestart
  /\ ret' = NoRet
  /\ Quiet

\* a new run with no client configuration file
LoadServers == NewManager(<<>>) /\ UNCHANGED more

(***************************************************************************)
(* The environment: a process ends by itself, is killed from outside, or   *)
(* another tool starts a python process on the script of a server.         *)
(***************************************************************************)
ProcExit(p) ==
  /\ IsAlive(p)
  /\ \E code \in SelfCodes : procs' = [procs EXCEPT ![p] = Dead(@, code, "exit")]
  /\ ret' = NoRet
  /\ Quiet
  /\ UNCHANGED <<status, process, launchers, stoppers, pass>>
  /\ UNCHANGED aside

ExternalKill(p) ==
  /\ IsAlive(p)
  /\ \E code \in ExtCodes : procs' = [procs EXCEPT ![p] = Dead(@, code, "ext")]
  /\ ret' = NoRet
  /\ Quiet
  /\ UNCHANGED <<status, process, launchers, stoppers, pass>>
  /\ UNCHANGED aside

ExternalSpawn(s) ==
  /\ FreePids # {}
  /\ procs' = [procs EXCEPT ![MinOf(FreePids)] = LiveProc("python", s, FALSE)]
  /\ ret' = NoRet
  /\ Quiet
  /\ UNCHANGED <<status, process, launchers, stoppers, pass>>
  /\ UNCHANGED aside

\* a live process spawns a python child whose command line names the same
\* script or no script; the OS gives it any unused pid
ProcFork(p) ==
  /\ IsAlive(p)
  /\ \E q \in FreePids : \E s \in {procs[p].srv, "-"} :
       procs' = [procs EXCEPT ![q] = ChildProc("python", s, p)]
  /\ ret' = NoRet
  /\ Quiet
  /\ UNCHANGED <<status, process, launchers, stoppers, pass>>
  /\ UNCHANGED aside

\* a process that ended and is no child of this run is reaped by its parent:
\* the OS may hand out its pid again
ProcReap(p) ==
  /\ procs[p].st = "dead"
  /\ ~procs[p].child
  /\ procs' = [procs EXCEPT ![p] = NoProc]
  /\ ret' = NoRet
  /\ Quiet
  /\ UNCHANGED <<status, process, launchers, stoppers, pass>>
  /\ UNCHANGED aside

Lifecycle ==
  \/ \E s \in Names : \E exists \in BOOLEAN : StartServer(s, exists)
  \/ \E s \in Names : StopServer(s)
  \/ \E r \in Threads(launchers) : StartServerThread(r)
  \/ \E r \in Threads(stoppers) : StopServerThread(r)
  \/ LoadServers
  \/ \E p \in Pids : ProcExit(p)
  \/ \E p \in Pids : ExternalKill(p)
  \/ \E s \in Names : ExternalSpawn(s)

Next ==
  \/ Lifecycle
  \/ CheckServersStatus

Spec == Init /\ [][Next]_vars

\* start, stop and their threads without the reconciliation pass
SpecNoPass == Init /\ [][Lifecycle]_vars

\* the reconciliation pass over a definition nobody starts or stops, in an
\* environment whose processes spawn children and whose pids are used again
NextGroups ==
  \/ CheckServersStatus
  \/ \E s \in Names : ExternalSpawn(s)
  \/ \E p \in Pids : ProcExit(p)
  \/ \E p \in Pids : ProcFork(p)
  \/ \E p \in Pids : ProcReap(p)

SpecGroups == Init /\ [][NextGroups]_vars

\* start, stop and their threads in one run of the application, with
\* launched processes that spawn children
NextStopTree ==
  \/ \E s \in Names : \E exists \in BOOLEAN : StartServer(s, exists)
  \/ \E s \in Names : StopServer(s)
  \/ \E r \in Threads(launchers) : StartServerThread(r)
  \/ \E r \in Threads(stoppers) : StopServerThread(r)
  \/ \E p \in Pids : ProcExit(p)
  \/ \E p \in Pids : ProcFork(p)

SpecStopTree == Init /\ [][NextStopTree]_vars

\* the states a stop thread goes through
StopperStates == [srv : Names, pc : {"begin", "term", "kill", "sweep", "fin"},
                  pid : 0..MaxPid]

\* the same run with stop threads that are scheduled whenever they can take
\* a step: each wait of a stop thread is bounded (wait_procs with timeout 5
\* and 3 at lines 783, 807 and 884, sleep(1) at line 852)
StopThreadScheduled ==
  \A r \in StopperStates :
    WF_vars(r \in Threads(stoppers) /\ StopServerThread(r))

SpecStopFair == Init /\ [][NextStopTree]_vars /\ StopThreadScheduled

(***************************************************************************)
(* App.restart_selected_server and App._restart_server_thread of           *)
(* src/gui/app.py.  The restart thread is the record restarter             *)
(*   pc     stop:  about to call stop_server (line 1105)                   *)
(*          poll:  in the loop of lines 1111-1115                          *)
(*          start: about to call start_server (lines 1118-1134)            *)
(*   name   the server selected when the thread was created                *)
(*   polls  the reads of the status done by the loop                       *)
(***************************************************************************)
\* line 1110
MaxAttempts == 30

\* lines 1053-1088: the selected server is Running or Starting at line 1060,
\* the user confirms and the restart thread is created
RestartSelectedServer(s) ==
  /\ restarter = IdleRestart
  /\ status[s] \in {RUNNING, STARTING}
  /\ restarter' = [pc |-> "stop", name |-> s, polls |-> 0]
  /\ ret' = Returns("restart_selected_server", s, TRUE)
  /\ Quiet
  /\ UNCHANGED <<status, process, procs, launchers, stoppers, pass, callback>>
  /\ UNCHANGED <<registry, regfile>>
  /\ UNCHANGED more

\* lines 1105-1107: the thread returns when stop_server refuses
RestartStop ==
  /\ restarter.pc = "stop"
  /\ \/ /\ StopServerRefused(restarter.name)
        /\ restarter' = IdleRestart
     \/ /\ StopServerAccepted(restarter.name)
        /\ restarter' = [restarter EXCEPT !.pc = "poll"]
  /\ UNCHANGED <<callback, registry, regfile>>
  /\ UNCHANGED more

\* lines 1111-1115: one read of the status; the loop ends on Stopped or
\* after max_attempts reads
RestartPoll ==
  /\ restarter.pc = "poll"
  /\ restarter' = IF \/ status[restarter.name] = STOPPED
                     \/ restarter.polls + 1 = MaxAttempts
                    THEN [restarter EXCEPT !.pc = "start", !.polls = @ + 1]
                    ELSE [restarter EXCEPT !.polls = @ + 1]
  /\ ret' = NoRet
  /\ Quiet
  /\ UNCHANGED <<status, process, procs, launchers, stoppers, pass, callback>>
  /\ UNCHANGED <<registry, regfile>>
  /\ UNCHANGED more

\* lines 1118-1137: whatever the status is now, start_server is called and
\* the thread ends
RestartStart ==
  /\ restarter.pc = "start"
  /\ \E exists \in BOOLEAN : StartServerCall(restarter.name, exists)
  /\ restarter' = IdleRestart
  /\ UNCHANGED <<callback, registry, regfile>>
  /\ UNCHANGED more

RestartServerThread ==
  \/ RestartStop
  \/ RestartPoll
  \/ RestartStart

\* start, stop, restart and their threads in one run of the application
NextRestart ==
  \/ \E s \in Names : \E exists \in BOOLEAN : StartServer(s, exists)
  \/ \E s \in Names : StopServer(s)
  \/ \E s \in Names : RestartSelectedServer(s)
  \/ \E r \in Threads(launchers) : StartServerThread(r)
  \/ \E r \in Threads(stoppers) : StopServerThread(r)
  \/ RestartServerThread
  \/ \E p \in Pids : ProcExit(p)

SpecRestart == Init /\ [][NextRestart]_vars

(***************************************************************************)
(* restart_server(server_name), lines 917-947, for the name of a           *)
(* registered server.  For a Running or Starting server the closure        *)
(* on_stop_complete, which takes no argument, replaces the callback (line  *)
(* 941) and stop_server is called (line 944); _notify_status_changed calls *)
(* the callback with the name and the status (line 1002), the call raises  *)
(* TypeError before the body of the closure runs and line 1003 passes.     *)
(***************************************************************************)
RestartServerStops(s) ==
  /\ status[s] \in {RUNNING, STARTING}
  /\ BagCardinality(stoppers) < MaxStop
  /\ callback' = OnStopComplete
  /\ status' = [status EXCEPT ![s] = STOPPING]
  /\ NotifyWith(callback', s, status')
  /\ stoppers' = stoppers (+) One(NewStopper(s))
  /\ ret' = Returns("restart_server", s, TRUE)
  /\ UNCHANGED <<process, procs, launchers, pass, restarter, registry, regfile>>
  /\ UNCHANGED more

\* line 947
RestartServerStarts(s, exists) ==
  /\ status[s] \notin {RUNNING, STARTING}
  /\ StartServerCall(s, exists)
  /\ UNCHANGED aside

RestartServer(s, exists) ==
  \/ RestartServerStops(s)
  \/ RestartServerStarts(s, exists)

\* start, stop, restart_server and their threads in one run of the
\* application
NextRestartServer ==
  \/ \E s \in Names : \E exists \in BOOLEAN : StartServer(s, exists)
  \/ \E s \in Names : StopServer(s)
  \/ \E s \in Names : \E exists \in BOOLEAN : RestartServer(s, exists)
  \/ \E r \in Threads(launchers) : StartServerThread(r)
  \/ \E r \in Threads(stoppers) : StopServerThread(r)
  \/ \E p \in Pids : ProcExit(p)

SpecRestartServer == Init /\ [][NextRestartServer]_vars

(***************************************************************************)
(* add_server, remove_server and update_server, called on the GUI thread   *)
(* for definitions that are not running, and the construction of the       *)
(* manager with client configuration files.                                *)
(***************************************************************************)
MaxServers == 3

life == <<status, process, procs, launchers, stoppers, pass, callback, restarter>>

\* get_server, lines 351-354: the position of the first definition named n,
\* 0 for None
GetServer(reg, n) ==
  IF NameTaken(reg, n)
    THEN MinOf({i \in 1..Len(reg) : reg[i].name = n})
    ELSE 0

\* lines 247-264 with save_config = True
AddServer(e) ==
  /\ NameTaken(registry, e.name) \/ Len(registry) < MaxServers
  /\ registry' = AddServerTo(registry, e)
  /\ ret' = Returns("add_server", e.name, ~NameTaken(registry, e.name))
  /\ IF NameTaken(registry, e.name)
       THEN UNCHANGED <<regfile, saved>>
       ELSE regfile' = SaveServers(registry') /\ saved' = status
  /\ events' = <<>>
  /\ UNCHANGED life
  /\ UNCHANGED more

\* lines 276-278: no such definition
RemoveServerUnknown(n) ==
  /\ GetServer(registry, n) = 0
  /\ ret' = Returns("remove_server", n, FALSE)
  /\ events' = <<>>
  /\ UNCHANGED <<registry, regfile, saved>>
  /\ UNCHANGED life
  /\ UNCHANGED more

\* lines 290-339: success tells whether the client files could be updated
\* (line 314)
RemoveServerKnown(n) ==
  /\ GetServer(registry, n) # 0
  /\ registry' = SelectSeq(registry, LAMBDA e : e.name # n)
  /\ regfile' = SaveServers(registry')
  /\ saved' = status
  /\ \E success \in BOOLEAN : ret' = Returns("remove_server", n, success)
  /\ events' = <<>>
  /\ UNCHANGED life
  /\ UNCHANGED more

RemoveServer(n) ==
  \/ RemoveServerUnknown(n)
  \/ RemoveServerKnown(n)

\* the keyword arguments of update_server, in the order they are passed
Kwargs ==
  LET names == {<<[prop |-> "name", value |-> v]>> : v \in RegNames}
      paths == {<<[prop |-> "script", value |-> v]>> : v \in Scripts}
  IN {<<>>} \cup names \cup paths
       \cup {a \o b : a \in names, b \in paths}
       \cup {b \o a : a \in names, b \in paths}

\* lines 382-395: the loop over the keyword arguments from position k on,
\* for the definition at position i found under the name n; a rename to a
\* taken name returns False at line 392, after the assignments already made
RECURSIVE SetProps(_, _, _, _)
SetProps(reg, i, n, kw) ==
  IF kw = <<>> THEN [reg |-> reg, ok |-> TRUE]
  ELSE LET h == Head(kw) IN
       IF h.prop = "name" /\ h.value # n /\ NameTaken(reg, h.value)
         THEN [reg |-> reg, ok |-> FALSE]
         ELSE SetProps([reg EXCEPT ![i] =
                          IF h.prop = "name"
                            THEN [@ EXCEPT !.name = h.value]
                            ELSE [@ EXCEPT !.script = h.value]],
                       i, n, Tail(kw))

\* lines 375-377: no such definition
UpdateServerUnknown(n) ==
  /\ GetServer(registry, n) = 0
  /\ ret' = Returns("update_server", n, FALSE)
  /\ events' = <<>>
  /\ UNCHANGED <<registry, regfile, saved>>
  /\ UNCHANGED life
  /\ UNCHANGED more

\* lines 380-399
UpdateServerKnown(n, kw) ==
  /\ GetServer(registry, n) # 0
  /\ LET out == SetProps(registry, GetServer(registry, n), n, kw) IN
       /\ registry' = out.reg
       /\ ret' = Returns("update_server", n, out.ok)
       /\ IF out.ok
            THEN regfile' = SaveServers(registry') /\ saved' = status
            ELSE UNCHANGED <<regfile, saved>>
  /\ events' = <<>>
  /\ UNCHANGED life
  /\ UNCHANGED more

UpdateServer(n, kw) ==
  \/ UpdateServerUnknown(n)
  \/ UpdateServerKnown(n, kw)

\* what the Cursor and Claude Desktop files hold: the names of one file are
\* distinct, the two files may share a name
ClientConfigs ==
  LET one == {<<e>> : e \in {d \in Definitions : d.source = "client"}}
  IN {<<>>} \cup one \cup {a \o b : a \in one, b \in one}

\* a run of the application started on the files the previous run left
Startup(imp) ==
  /\ Len(Import(LoadFile(regfile), imp)) <= MaxServers
  /\ NewManager(imp)
  /\ UNCHANGED more

(***************************************************************************)
(* ServerManager.__init__ step by step: _load_servers (line 134), then one *)
(* add_server(server, save_config=False) for every client entry whose name *)
(* is not taken and whose script was found (lines 167-201), then the end   *)
(* of the import.                                                          *)
(***************************************************************************)
StartupLoad ==
  /\ boot = "run"
  /\ NewManager(<<>>)
  /\ boot' = "import"
  /\ UNCHANGED <<arg, res, io>>

\* lines 247-264 with save_config = False, called from line 201
ImportServer(e) ==
  /\ boot = "import"
  /\ ~NameTaken(registry, e.name)
  /\ Len(registry) < MaxServers
  /\ registry' = AddServerTo(registry, e)
  /\ ret' = Returns("add_server", e.name, TRUE)
  /\ events' = <<>>
  /\ UNCHANGED <<regfile, saved, boot, arg, res, io>>
  /\ UNCHANGED life

ImportDone ==
  /\ boot = "import"
  /\ boot' = "run"
  /\ ret' = NoRet
  /\ events' = <<>>
  /\ UNCHANGED <<registry, regfile, saved, arg, res, io>>
  /\ UNCHANGED life

\* the registry operations of the running application and its startup
NextPersist ==
  \/ \E e \in {d \in Definitions : d.source = "none"} : boot = "run" /\ AddServer(e)
  \/ \E n \in RegNames : boot = "run" /\ RemoveServer(n)
  \/ \E n \in RegNames : \E kw \in Kwargs : boot = "run" /\ UpdateServer(n, kw)
  \/ StartupLoad
  \/ \E e \in {d \in Definitions : d.source = "client"} : ImportServer(e)
  \/ ImportDone

SpecPersist == Init /\ [][NextPersist]_vars

NextRegistry ==
  \/ \E e \in {d \in Definitions : d.source = "none"} : AddServer(e)
  \/ \E n \in RegNames : RemoveServer(n)
  \/ \E n \in RegNames : \E kw \in Kwargs : UpdateServer(n, kw)
  \/ \E imp \in ClientConfigs : Startup(imp)

SpecRegistry == Init /\ [][NextRegistry]_vars

(***************************************************************************)
(* _load_client_config_servers in detail, as a function of the list and of *)
(* the two client files.  A declaration is one item of mcpServers: its     *)
(* name, the keys it has, its command and its args.  A definition here is  *)
(* a record of name, script (the path, as the tuple of its parts) and      *)
(* original (the original_config).                                         *)
(***************************************************************************)
MaxArgs == 4

Tokens == {"--directory", "run", "s.py"}

ArgLists(n) == UNION {[1..k -> Tokens] : k \in 0..n}

Declarations(n) ==
  {d \in [name : RegNames, keys : SUBSET {"command", "args"},
          command : {"", "uv"}, args : ArgLists(n)] :
     /\ ("command" \in d.keys) <=> (d.command = "uv")
     /\ ("args" \notin d.keys) => (d.args = <<>>)}

\* the items of one client file, none when the file does not exist
ClientFiles(n) == {<<>>} \cup {<<d>> : d \in Declarations(n)}

NoConfig == [command |-> "", args |-> <<>>, source |-> "none"]

\* the lists _load_servers can have built
LoadedLists ==
  {<<>>, <<[name |-> "demo", script |-> <<"a.py">>, original |-> NoConfig]>>}

LastOf(S) == CHOOSE i \in S : \A j \in S : j <= i

\* lines 177-180: the argument after the last "--directory"
DirectoryOf(args) ==
  LET hits == {i \in 1..(Len(args) - 1) : args[i] = "--directory"}
  IN IF hits = {} THEN "" ELSE args[LastOf(hits) + 1]

\* lines 183-187: the .py argument after the last "run" that has one,
\* joined to the directory; <<>> for None
ScriptPathOf(args) ==
  LET hits == {i \in 1..(Len(args) - 1) :
                 args[i] = "run" /\ args[i + 1] = "s.py"}
  IN IF hits = {} THEN <<>>
     ELSE IF DirectoryOf(args) = "" THEN <<args[LastOf(hits) + 1]>>
     ELSE <<DirectoryOf(args), args[LastOf(hits) + 1]>>

\* the command and args of the declaration are lost
OriginalConfigEmpty(d, type) == [command |-> "", args |-> <<>>, source |-> type]

\* lines 193-198
OriginalConfig(d, type) ==
  [command |-> IF "command" \in d.keys THEN d.command ELSE "",
   args |-> d.args,
   source |-> type]

\* lines 165-201 for the items of one file
RECURSIVE LoadClientFile(_, _, _)
LoadClientFile(reg, items, type) ==
  IF items = <<>> THEN reg
  ELSE LET d == Head(items)
           script == IF "args" \in d.keys THEN ScriptPathOf(d.args) ELSE <<>>
       IN LoadClientFile(
            IF NameTaken(reg, d.name) \/ script = <<>>
              THEN reg
              ELSE AddServerTo(reg, [name |-> d.name, script |-> script,
                                     original |-> OriginalConfig(d, type)]),
            Tail(items), type)

\* lines 154-203: the Cursor file, then the Claude Desktop file
LoadClientConfigServers(reg, cursor, claude) ==
  LoadClientFile(LoadClientFile(reg, cursor, "cursor"), claude, "claude")

InitImport ==
  /\ InitState
  /\ buffer = BufferAfter(0)
  /\ arg \in [kind : {"import"}, reg : LoadedLists,
               cursor : ClientFiles(MaxArgs), claude : ClientFiles(MaxArgs - 2)]
  /\ res = Nothing

ApplyImport ==
  /\ arg.kind = "import"
  /\ res.kind = "none"
  /\ res' = [kind |-> "import",
             reg |-> LoadClientConfigServers(arg.reg, arg.cursor, arg.claude)]
  /\ UNCHANGED <<status, process, saved, procs, launchers, stoppers, pass, ret,
                 events, callback, restarter, registry, regfile, boot, arg, io>>

SpecImport == InitImport /\ [][ApplyImport]_vars

(***************************************************************************)
(* save_json_file (src/gui/utils.py lines 292-316) step by step.  The step *)
(* that calls _notify_status_changed builds the list of line 232; the save *)
(* then opens the file for writing, which empties it (line 308), and the   *)
(* text reaches the file at its start when the file is closed (line 309).  *)
(* A save is a record of its owner (the GUI thread, a launcher that goes   *)
(* on after the save, or a thread that ends after it), pc and the text.    *)
(***************************************************************************)
MaxSave == 2

\* the thread that made the notification of the last step
NotifiedBy ==
  IF ret.of # "none" THEN "gui"
  ELSE IF events[1][2] = RUNNING THEN "launcher"
  ELSE "ending"

\* thread o has no save in progress and every save called has begun
NotSaving(o) ==
  /\ events = <<>>
  /\ \A w \in Threads(savers) : w.owner # o

SaveBegin ==
  /\ events # <<>>
  /\ BagCardinality(savers) < MaxSave
  /\ savers' = savers (+) One([owner |-> NotifiedBy, pc |-> "open",
                               text |-> FileText(saved, 1)])
  /\ events' = <<>>
  /\ UNCHANGED <<status, process, saved, procs, launchers, stoppers, pass, ret,
                 callback, restarter, registry, regfile, boot, arg, res, disk,
                 logs, buffer>>

\* open(file_path, 'w')
SaveOpen(w) ==
  /\ w.pc = "open"
  /\ disk' = <<>>
  /\ savers' = Move(savers, w, [w EXCEPT !.pc = "write"])
  /\ UNCHANGED <<status, process, saved, procs, launchers, stoppers, pass, ret,
                 events, callback, restarter, registry, regfile, boot, arg, res,
                 logs, buffer>>

\* json.dump and the end of the with block: the text is written from the
\* start of the file, over what is there
SaveWrite(w) ==
  /\ w.pc = "write"
  /\ disk' = w.text \o SubSeq(disk, Len(w.text) + 1, Len(disk))
  /\ savers' = savers (-) One(w)
  /\ UNCHANGED <<status, process, saved, procs, launchers, stoppers, pass, ret,
                 events, callback, restarter, registry, regfile, boot, arg, res,
                 logs, buffer>>

\* start, stop and their threads with their saves
NextDisk ==
  \/ \E s \in Names : \E exists \in BOOLEAN : NotSaving("gui") /\ StartServer(s, exists)
  \/ \E s \in Names : NotSaving("gui") /\ StopServer(s)
  \/ \E r \in Threads(launchers) : NotSaving("launcher") /\ StartServerThread(r)
  \/ \E r \in Threads(stoppers) : events = <<>> /\ StopServerThread(r)
  \/ \E p \in Pids : events = <<>> /\ ProcExit(p)
  \/ SaveBegin
  \/ \E w \in Threads(savers) : SaveOpen(w)
  \/ \E w \in Threads(savers) : SaveWrite(w)

SpecDisk == Init /\ [][NextDisk]_vars

(***************************************************************************)
(* check_duplicate_processes and _group_related_processes as functions of  *)
(* the process list.  A process is a record of pid, ppid (0 for none) and  *)
(* match: it is a python process whose command line names the script of    *)
(* the server (lines 1111, 1128).  Groups are sequences of pids.           *)
(***************************************************************************)
MaxProcs == 3

ProcLists ==
  LET recs == [pid : 1..MaxProcs, ppid : 0..MaxProcs, match : BOOLEAN]
  IN UNION {{ps \in [1..k -> recs] :
               \A i, j \in 1..k : ps[i].pid = ps[j].pid => i = j} : k \in 0..MaxProcs}

PidsOf(ps) == {ps[i].pid : i \in 1..Len(ps)}

\* the list as pids, in order
PidList(ps) == [i \in 1..Len(ps) |-> ps[i].pid]

\* lines 1163-1173: parent_child.get(pid, []); a process whose ppid is not
\* a pid of the list is the child of nobody
ChildPids(ps, pid) == PidList(SelectSeq(ps, LAMBDA x : x.ppid = pid))

\* no process is a root
NoRootPids(ps) == <<>>

\* lines 1176-1183
RootPids(ps) == PidList(SelectSeq(ps, LAMBDA x : x.ppid \notin PidsOf(ps)))

\* lines 1186-1202: collect_tree with the visited set it shares with its
\* recursive calls; out is the list it returns, seen the set afterwards
RECURSIVE CollectTree(_, _, _)
RECURSIVE CollectChildren(_, _, _)
CollectTree(ps, pid, visited) ==
  IF pid \in visited THEN [out |-> <<>>, seen |-> visited]
  ELSE LET sub == CollectChildren(ps, ChildPids(ps, pid), visited \cup {pid})
       IN [out |-> <<pid>> \o sub.out, seen |-> sub.seen]

CollectChildren(ps, kids, visited) ==
  IF kids = <<>> THEN [out |-> <<>>, seen |-> visited]
  ELSE LET first == CollectTree(ps, Head(kids), visited)
           rest == CollectChildren(ps, Tail(kids), first.seen)
       IN [out |-> first.out \o rest.out, seen |-> rest.seen]

\* the loops of lines 1209-1223 over the pids of starts: every pid not in
\* visited_pids yields the group collect_tree builds with a new visited set
RECURSIVE GroupsFrom(_, _, _, _)
GroupsFrom(ps, starts, visitedPids, groups) ==
  IF starts = <<>> THEN [groups |-> groups, visited |-> visitedPids]
  ELSE IF Head(starts) \in visitedPids
    THEN GroupsFrom(ps, Tail(starts), visitedPids, groups)
  ELSE LET group == CollectTree(ps, Head(starts), {}).out
       IN IF group = <<>>
            THEN GroupsFrom(ps, Tail(starts), visitedPids, groups)
            ELSE GroupsFrom(ps, Tail(starts),
                            visitedPids \cup {group[i] : i \in 1..Len(group)},
                            Append(groups, group))

\* lines 1150-1225: the roots first, then the processes not yet visited
GroupRelatedProcesses(ps) ==
  LET fromRoots == GroupsFrom(ps, RootPids(ps), {}, <<>>)
  IN GroupsFrom(ps, PidList(ps), fromRoots.visited, fromRoots.groups).groups

\* lines 1124-1146 for one server: the groups reported, <<>> for none
CheckDuplicateProcesses(ps) ==
  LET scriptProcesses == SelectSeq(ps, LAMBDA x : x.match)
  IN IF Len(scriptProcesses) < 2 THEN <<>>
     ELSE IF Len(GroupRelatedProcesses(scriptProcesses)) > 1
       THEN GroupRelatedProcesses(scriptProcesses)
       ELSE <<>>

InitProcs ==
  /\ InitState
  /\ buffer = BufferAfter(0)
  /\ arg \in [kind : {"procs"}, list : ProcLists]
  /\ res = Nothing

\* the groups of the matching processes and the report of the server
ApplyProcs ==
  /\ arg.kind = "procs"
  /\ res.kind = "none"
  /\ res' = [kind |-> "procs",
             groups |-> GroupRelatedProcesses(SelectSeq(arg.list, LAMBDA x : x.match)),
             duplicates |-> CheckDuplicateProcesses(arg.list)]
  /\ UNCHANGED <<status, process, saved, procs, launchers, stoppers, pass, ret,
                 events, callback, restarter, registry, regfile, boot, arg, io>>

SpecProcs == InitProcs /\ [][ApplyProcs]_vars

(***************************************************************************)
(* The log directory.  A log file is a record of its owner (the server     *)
(* name of line 455, as the sequence of its parts between underscores),    *)
(* its stamp (the time in its name) and its mtime.  order is the order in  *)
(* which os.listdir lists the names, which the stable sort keeps for files *)
(* of equal mtime.                                                         *)
(***************************************************************************)
\* the default of max_files
max_files == 10
\* the limit _rotate_log_files passes to _limitar_total_logs
max_total == 100

\* the number of files a server has beyond max_files at most
MaxExtra == 2
\* the last second of a launch
MaxClock == 11

demo == <<"demo">>
demoV2 == <<"demo", "v2">>
echo == <<"echo">>
LogServers == {demo, demoV2, echo}

\* the names of the other servers
Workers == <<"w1", "w2", "w3", "w4", "w5", "w6", "w7", "w8", "w9">>

Listings == {"asc", "desc"}

\* a sorts before b, for sequences of numbers of the same length
RECURSIVE Lex(_, _)
Lex(a, b) ==
  /\ a # <<>>
  /\ \/ Head(a) < Head(b)
     \/ Head(a) = Head(b) /\ Lex(Tail(a), Tail(b))

\* the place of a file in the listing by name: the workers' files come
\* first, then the ones of demo, demo_v2 and echo
NameKey(f) ==
  <<IF f.owner = demo THEN 1 ELSE IF f.owner = demoV2 THEN 2
      ELSE IF f.owner = echo THEN 3 ELSE 0,
    IF f.owner \in LogServers THEN 0
      ELSE CHOOSE k \in 1..Len(Workers) : f.owner = <<Workers[k]>>,
    f.stamp>>

ListedBefore(order, f, g) ==
  IF order = "asc" THEN Lex(NameKey(f), NameKey(g)) ELSE Lex(NameKey(g), NameKey(f))

\* the files in the order they are listed
ListedFirst(order, f, g) == ListedBefore(order, f, g)

\* lines 658 and 696: sort(key=lambda x: x[1]), a stable sort
OlderFirst(order, f, g) ==
  \/ f.mtime < g.mtime
  \/ f.mtime = g.mtime /\ ListedBefore(order, f, g)

\* the first k files of the sorted list of the files F
Oldest(F, k, order) ==
  {f \in F : Cardinality({g \in F : OlderFirst(order, g, f)}) < k}

\* lines 646 and 651: fnmatch(filename, f"{server_name}_*.log")
IsLogOf(server, f) ==
  /\ Len(server) <= Len(f.owner)
  /\ SubSeq(f.owner, 1, Len(server)) = server

\* lines 676-711, no os.remove failing
LimitarTotalLogs(dir, order) ==
  IF Cardinality(dir) > max_total
    THEN dir \ Oldest(dir, Cardinality(dir) - max_total, order)
    ELSE dir

\* lines 636-674, no os.remove failing
RotateLogFiles(dir, server, order) ==
  LET logFiles == {f \in dir : IsLogOf(server, f)}
      filesToRemove == IF Cardinality(logFiles) > max_files
                         THEN Oldest(logFiles, Cardinality(logFiles) - max_files, order)
                         ELSE {}
  IN LimitarTotalLogs(dir \ filesToRemove, order)

\* n files of owner, the one of stamp i modified at base + i
FilesOf(owner, n, base) ==
  {[owner |-> owner, stamp |-> i, mtime |-> base + i] : i \in 1..n}

\* n files of other servers, max_files for each, modified at base + 1,
\* base + 2 and so on
WorkerFiles(n, base) ==
  {[owner |-> <<Workers[((i - 1) \div max_files) + 1]>>, stamp |-> ((i - 1) % max_files) + 1,
    mtime |-> base + i] : i \in 1..n}

\* the directories: demo, demo_v2 and echo with their files one block of
\* mtimes at the place age gives it (the same place for two of them: their
\* files are modified in the same seconds), and the files of other servers
\* before or after them
LogAges == [LogServers -> 0..2]

LogDirs ==
  {FilesOf(demo, n[1], 100 + 20 * age[demo])
     \cup FilesOf(demoV2, n[2], 100 + 20 * age[demoV2])
     \cup FilesOf(echo, n[3], 100 + 20 * age[echo])
     \cup WorkerFiles(n[4], base) :
   n \in ({0} \cup max_files..(max_files + MaxExtra))
           \X {0, MaxExtra}
           \X {0, 1, max_files + 1}
           \X {0, max_total - max_files - 1},
   age \in LogAges,
   base \in {0, 200}}

InitLogs ==
  /\ InitState
  /\ buffer = BufferAfter(0)
  /\ arg \in [kind : {"logs"}, dir : LogDirs, server : LogServers, order : Listings]
  /\ res = Nothing

\* what _rotate_log_files(server) and _limitar_total_logs() each leave of
\* the directory
ApplyLogs ==
  /\ arg.kind = "logs"
  /\ res.kind = "none"
  /\ res' = [kind |-> "logs",
             rotated |-> RotateLogFiles(arg.dir, arg.server, arg.order),
             limited |-> LimitarTotalLogs(arg.dir, arg.order)]
  /\ UNCHANGED <<status, process, saved, procs, launchers, stoppers, pass, ret,
                 events, callback, restarter, registry, regfile, boot, arg, io>>

SpecLogs == InitLogs /\ [][ApplyLogs]_vars

\* the servers that are launched
LaunchServers == {demo, echo}

\* the second of the last modification in the directory
LastSecond == IF logs = {} THEN 0
              ELSE CHOOSE t \in 0..MaxClock :
                     /\ \E f \in logs : f.mtime = t
                     /\ \A f \in logs : f.mtime <= t

\* lines 453-463 of _start_server_thread, launched for server in the second
\* now: the name of the log file is made, _rotate_log_files runs, and then
\* open(log_path, "w") creates the file (or opens the one of the same name
\* that a launch of the same second created)
StartServerThreadLog(server) ==
  \E now \in {LastSecond, LastSecond + 1}, order \in Listings :
    /\ now \in 1..MaxClock
    /\ logs' = RotateLogFiles(logs, server, order)
                 \cup {[owner |-> server, stamp |-> now, mtime |-> now]}
    /\ UNCHANGED <<status, process, saved, procs, launchers, stoppers, pass,
                   ret, events, callback, restarter, registry, regfile, boot,
                   arg, res, disk, savers, buffer>>

NextLaunchLogs == \E server \in LaunchServers : StartServerThreadLog(server)

SpecLaunchLogs == Init /\ [][NextLaunchLogs]_vars

(***************************************************************************)
(* The rotation when the operating system refuses: os.remove raises for    *)
(* the files of locked, and fails tells whether os.listdir or a            *)
(* os.path.getmtime raises in _rotate_log_files (first place) and in       *)
(* _limitar_total_logs (second place).                                     *)
(***************************************************************************)
Failures == {"none", "list", "stat"}

\* no try around os.remove: nothing is removed after a failure, which
\* leaves the loop
RemoveUnguarded(files, locked) ==
  IF files \cap locked = {} THEN [removed |-> files, raised |-> FALSE]
  ELSE [removed |-> {}, raised |-> TRUE]

\* lines 663-668 and 702-708: the loop over the files to remove, each
\* os.remove in its own try
RemoveEach(files, locked) == [removed |-> files \ locked, raised |-> FALSE]

\* lines 684-711; raised tells whether an exception leaves the function
LimitarTotalLogsOrFail(dir, order, locked, fails) ==
  IF fails = "list" \/ (fails = "stat" /\ dir # {})
    THEN [dir |-> dir, raised |-> FALSE]
  ELSE IF Cardinality(dir) > max_total
    THEN LET done == RemoveEach(Oldest(dir, Cardinality(dir) - max_total, order),
                                locked)
         IN [dir |-> dir \ done.removed, raised |-> FALSE]
  ELSE [dir |-> dir, raised |-> FALSE]

\* lines 644-674: the except of line 673 ends the function on any failure
\* but the ones of os.remove, before line 671 is reached
RotateLogFilesOrFail(dir, server, order, locked, fails) ==
  LET logFiles == {f \in dir : IsLogOf(server, f)}
      filesToRemove == IF Cardinality(logFiles) > max_files
                         THEN Oldest(logFiles, Cardinality(logFiles) - max_files, order)
                         ELSE {}
      done == RemoveEach(filesToRemove, locked)
  IN IF fails[1] = "list" \/ (fails[1] = "stat" /\ logFiles # {})
       THEN [dir |-> dir, raised |-> FALSE]
     ELSE IF done.raised
       THEN [dir |-> dir \ done.removed, raised |-> FALSE]
     ELSE LimitarTotalLogsOrFail(dir \ done.removed, order, locked, fails[2])

\* the three oldest files of a directory
OldestThree(dir) == Oldest(dir, 3, "asc")

FailDirs ==
  {FilesOf(demo, n[1], 100) \cup FilesOf(echo, n[2], 120) \cup WorkerFiles(n[3], 200) :
   n \in (max_files..(max_files + MaxExtra))
           \X {0, 1}
           \X {0, max_total - max_files - 1}}

InitRotateFail ==
  /\ InitState
  /\ buffer = BufferAfter(0)
  /\ \E dir \in FailDirs :
       arg \in [kind : {"rotfail"}, dir : {dir}, server : {demo, echo},
                order : {"asc"}, locked : SUBSET OldestThree(dir),
                fails : Failures \X Failures]
  /\ res = Nothing

\* lines 455-463 of _start_server_thread in the second MaxClock: the
\* rotation, and the log file that open(log_path, "w") creates when the
\* rotation has not raised; spawns tells whether the thread goes on to the
\* spawn
ApplyRotateFail ==
  /\ arg.kind = "rotfail"
  /\ res.kind = "none"
  /\ LET out == RotateLogFilesOrFail(arg.dir, arg.server, arg.order, arg.locked,
                                     arg.fails)
     IN res' = [kind |-> "rotfail",
                dir |-> IF out.raised THEN out.dir
                        ELSE out.dir \cup {[owner |-> arg.server, stamp |-> MaxClock,
                                            mtime |-> 300]},
                spawns |-> ~out.raised]
  /\ UNCHANGED <<status, process, saved, procs, launchers, stoppers, pass, ret,
                 events, callback, restarter, registry, regfile, boot, arg, io>>

SpecRotateFail == InitRotateFail /\ [][ApplyRotateFail]_vars

(***************************************************************************)
(* _add_log on the log of one server, called by its launcher thread and by *)
(* a stop thread with no lock.  The entries are numbered in the order of   *)
(* their append; tmp is the slice a call has taken and not yet assigned.   *)
(***************************************************************************)
\* entries added in a behaviour at most
MaxAdds == 4

\* the lengths of the buffer at the start
StartLengths == {0, max_logs - 1, max_logs, max_logs + MaxAdds}

\* the launcher thread has added the entries 1..n, for some n
InitAddLog ==
  /\ InitState
  /\ buffer \in {[BufferAfter(n) EXCEPT !.who = {"launcher"}] : n \in StartLengths}
  /\ arg = Nothing
  /\ res = Nothing

\* line 979: server.logs.append(log_entry)
AddLogAppend(t) ==
  /\ buffer.pc[t] = "idle"
  /\ buffer.added < max_logs + 2 * MaxAdds
  /\ buffer' = [buffer EXCEPT !.logs = Append(@, buffer.added + 1),
                              !.added = @ + 1,
                              !.who = @ \cup {t},
                              !.pc[t] = "check"]
  /\ UNCHANGED <<status, process, saved, procs, launchers, stoppers, pass, ret,
                 events, callback, restarter, registry, regfile, boot, arg, res,
                 disk, savers, logs>>

\* line 983: the test of the length; the call returns when it is false
\* (lines 987-991 change nothing of the server)
AddLogCheck(t) ==
  /\ buffer.pc[t] = "check"
  /\ buffer' = [buffer EXCEPT !.pc[t] = IF Len(buffer.logs) > max_logs
                                          THEN "slice" ELSE "idle"]
  /\ UNCHANGED <<status, process, saved, procs, launchers, stoppers, pass, ret,
                 events, callback, restarter, registry, regfile, boot, arg, res,
                 disk, savers, logs>>

\* lines[:max_logs]
FirstLines(lines) ==
  IF Len(lines) > max_logs THEN SubSeq(lines, 1, max_logs) ELSE lines

\* lines[-max_logs:]
LastLines(lines) ==
  IF Len(lines) > max_logs
    THEN SubSeq(lines, Len(lines) - max_logs + 1, Len(lines))
    ELSE lines

\* line 984, right side: server.logs[-max_logs:]
AddLogSlice(t) ==
  /\ buffer.pc[t] = "slice"
  /\ buffer' = [buffer EXCEPT !.tmp[t] = LastLines(buffer.logs),
                              !.pc[t] = "assign"]
  /\ UNCHANGED <<status, process, saved, procs, launchers, stoppers, pass, ret,
                 events, callback, restarter, registry, regfile, boot, arg, res,
                 disk, savers, logs>>

\* line 984, left side: server.logs = the slice; the call returns
AddLogAssign(t) ==
  /\ buffer.pc[t] = "assign"
  /\ buffer' = [buffer EXCEPT !.logs = buffer.tmp[t], !.tmp[t] = <<>>,
                              !.pc[t] = "idle"]
  /\ UNCHANGED <<status, process, saved, procs, launchers, stoppers, pass, ret,
                 events, callback, restarter, registry, regfile, boot, arg, res,
                 disk, savers, logs>>

AddLog(t) == AddLogAppend(t) \/ AddLogCheck(t) \/ AddLogSlice(t) \/ AddLogAssign(t)

NextAddLog == \E t \in AddLogThreads : AddLog(t)

SpecAddLog == InitAddLog /\ [][NextAddLog]_vars

(***************************************************************************)
(* start_server called by the restart thread while the GUI thread calls    *)
(* it too: the test of line 416 and the assignment of line 434 are two     *)
(* steps of the restart thread with no lock between them (os.path.exists,  *)
(* line 424, is between; the script of the definition exists).  The        *)
(* restart thread may start one launcher thread more than MaxLaunch.       *)
(***************************************************************************)
\* lines 411-421 in the restart thread: the status is tested
RestartStartCheck ==
  /\ restarter.pc = "start"
  /\ \/ /\ StartServerRefused(restarter.name)
        /\ restarter' = IdleRestart
     \/ /\ ~StartRefused(status[restarter.name])
        /\ restarter' = [restarter EXCEPT !.pc = "commit"]
        /\ ret' = NoRet
        /\ Quiet
        /\ UNCHANGED <<status, process, procs, launchers, stoppers, pass>>
  /\ UNCHANGED <<callback, registry, regfile>>
  /\ UNCHANGED more

\* lines 424-444 in the restart thread, for the status that line 416 read
RestartStartCommit ==
  /\ restarter.pc = "commit"
  /\ BagCardinality(launchers) <= MaxLaunch
  /\ status' = [status EXCEPT ![restarter.name] = STARTING]
  /\ NotifyStatusChanged(restarter.name, status')
  /\ launchers' = launchers (+) One(NewLauncher(restarter.name))
  /\ ret' = Returns("start_server", restarter.name, TRUE)
  /\ restarter' = IdleRestart
  /\ UNCHANGED <<process, procs, stoppers, pass>>
  /\ UNCHANGED <<callback, registry, regfile>>
  /\ UNCHANGED more

\* start on the GUI thread, restart, and their threads
NextRace ==
  \/ \E s \in Names : StartServerRefused(s) /\ UNCHANGED aside
  \/ \E s \in Names : StartServerAccepted(s) /\ UNCHANGED aside
  \/ \E s \in Names : RestartSelectedServer(s)
  \/ RestartStop
  \/ RestartPoll
  \/ RestartStartCheck
  \/ RestartStartCommit
  \/ \E r \in Threads(launchers) : StartServerThread(r)
  \/ \E r \in Threads(stoppers) : StopServerThread(r)

SpecRace == Init /\ [][NextRace]_vars

(***************************************************************************)
(* remove_server(server_name) on the GUI thread for a definition whose     *)
(* threads may be running.  yes is the answer to the question of line 282. *)
(***************************************************************************)
\* lines 276-278: no such definition
RemoveLiveUnknown(n) ==
  /\ GetServer(registry, n) = 0
  /\ ret' = Returns("remove_server", n, FALSE)
  /\ Quiet
  /\ UNCHANGED <<status, process, procs, launchers, stoppers, pass>>
  /\ UNCHANGED aside

\* lines 281-286: the definition is Running and the user answers no
RemoveLiveDeclined(n) ==
  /\ GetServer(registry, n) # 0
  /\ status[n] = RUNNING
  /\ ret' = Returns("remove_server", n, FALSE)
  /\ Quiet
  /\ UNCHANGED <<status, process, procs, launchers, stoppers, pass>>
  /\ UNCHANGED aside

\* lines 281-339: stop_server is called for a Running definition only, then
\* the definition leaves the list and the list is saved
RemoveLiveDone(n) ==
  /\ GetServer(registry, n) # 0
  /\ IF status[n] = RUNNING
       THEN /\ BagCardinality(stoppers) < MaxStop
            /\ status' = [status EXCEPT ![n] = STOPPING]
            /\ stoppers' = stoppers (+) One(NewStopper(n))
            /\ events' = IF callback = Listener THEN <<<<n, STOPPING>>>> ELSE <<>>
       ELSE /\ UNCHANGED <<status, stoppers>>
            /\ events' = <<>>
  /\ registry' = SelectSeq(registry, LAMBDA e : e.name # n)
  /\ regfile' = SaveServers(registry')
  /\ saved' = status'
  /\ \E success \in BOOLEAN : ret' = Returns("remove_server", n, success)
  /\ UNCHANGED <<process, procs, launchers, pass, callback, restarter>>
  /\ UNCHANGED more

RemoveLive(n) ==
  \/ RemoveLiveUnknown(n)
  \/ RemoveLiveDeclined(n)
  \/ RemoveLiveDone(n)

\* start, stop and remove on the GUI thread for the definitions of the
\* list (get_server, lines 411 and 723), and the threads
NextRemove ==
  \/ \E s \in Names : GetServer(registry, s) # 0 /\ StartServerRefused(s) /\ UNCHANGED aside
  \/ \E s \in Names : GetServer(registry, s) # 0 /\ StartServerAccepted(s) /\ UNCHANGED aside
  \/ \E s \in Names : GetServer(registry, s) # 0 /\ StopServer(s)
  \/ \E s \in Names : RemoveLive(s)
  \/ \E r \in Threads(launchers) : StartServerThread(r)
  \/ \E r \in Threads(stoppers) : StopServerThread(r)

SpecRemove == Init /\ [][NextRemove]_vars

(***************************************************************************)
(* Properties.                                                             *)
(***************************************************************************)
\* the step is a return of call f on name s
Called(f, s) == ret'.of = f /\ ret'.name = s

LaunchersOf(s) == {r \in Threads(launchers) : r.srv = s}
StoppersOf(s) == {r \in Threads(stoppers) : r.srv = s}

\* C1: start_server on a definition whose status is Running or Starting
\* returns failure and leaves the status, the handle, the launcher threads
\* and the OS processes as they were, with no notification and no write of
\* the registry file.
StartWhileRunningRefused ==
  [][\A s \in Names :
       (Called("start_server", s) /\ status[s] \in {RUNNING, STARTING})
         => /\ ret'.val = FALSE
            /\ status' = status
            /\ process' = process
            /\ launchers' = launchers
            /\ procs' = procs
            /\ events' = <<>>
            /\ saved' = saved]_vars

\* a start request was just refused for a Starting definition whose launcher
\* thread has not spawned the process yet
StartWhileRunningRefusedSeen ==
  \E s \in Names :
    /\ ret = Returns("start_server", s, FALSE)
    /\ status[s] = STARTING
    /\ \E r \in LaunchersOf(s) : r.pc = "spawn"

\* C2: stop_server on a definition whose status is neither Running nor
\* Starting returns failure and leaves the status, the handle, the stop
\* threads and the OS processes as they were, with no notification.
StopWhileNotRunningRefused ==
  [][\A s \in Names :
       (Called("stop_server", s) /\ status[s] \notin {RUNNING, STARTING})
         => /\ ret'.val = FALSE
            /\ status' = status
            /\ process' = process
            /\ stoppers' = stoppers
            /\ procs' = procs
            /\ events' = <<>>
            /\ saved' = saved]_vars

\* a stop request was just refused for a Stopped definition while a process
\* naming its script is alive
StopWhileNotRunningRefusedSeen ==
  \E s \in Names :
    /\ ret = Returns("stop_server", s, FALSE)
    /\ status[s] = STOPPED
    /\ \E p \in Pids : IsAlive(p) /\ MatchesScript(p, s)

\* C3: while a definition is Stopping and its stop thread has not finished,
\* start_server returns failure, the status stays Stopping and no launcher
\* thread is created.
StartWhileStoppingRefused ==
  [][\A s \in Names :
       (Called("start_server", s) /\ status[s] = STOPPING /\ StoppersOf(s) # {})
         => /\ ret'.val = FALSE
            /\ status'[s] = STOPPING
            /\ launchers' = launchers]_vars

\* the step ends a thread with the write of a status and its notification
LauncherEnds(r) ==
  /\ r.pc \in {"fin", "exc"}
  /\ launchers' = launchers (-) One(r)
  /\ events' # <<>>
StopperEnds(r) ==
  /\ r.pc = "fin"
  /\ stoppers' = stoppers (-) One(r)
  /\ events' # <<>>
\* after the step no launcher and no stop thread of s is left
NoThreadLeft(s) ==
  /\ \A r \in Threads(launchers') : r.srv # s
  /\ \A r \in Threads(stoppers') : r.srv # s
\* p was spawned by a launcher, did not respond to the terminate of a stop
\* thread and was ended by its forced kill (lines 786-789, 852-856)
ForceKilled(p) ==
  p \in Pids /\ procs[p].st = "dead" /\ procs[p].child /\ procs[p].by = "kill"
\* p was spawned by a launcher and ended with exit code 15 by a stop thread
StoppedWith15(p) ==
  /\ p \in Pids /\ procs[p].st = "dead" /\ procs[p].child
  /\ procs[p].by \in {"term", "kill", "sweep_term", "sweep_kill"}
  /\ procs[p].rc = 15

\* C4: when the stop thread escalated to a forced kill of the tracked
\* process, the status is Stopped once the stop thread and the launcher
\* thread that observes the exit have both finished, whichever finishes last.
ForcedKillEndsStopped ==
  [][\A s \in Names :
       /\ \A r \in LaunchersOf(s) :
            (LauncherEnds(r) /\ ForceKilled(r.pid) /\ NoThreadLeft(s))
              => status'[s] = STOPPED
       /\ \A r \in StoppersOf(s) :
            (StopperEnds(r) /\ ForceKilled(r.pid) /\ NoThreadLeft(s))
              => status'[s] = STOPPED]_vars

\* C5: when the launched process ended with exit code 15 because a stop
\* thread terminated it, the exit handler of the launcher thread writes
\* Stopped.
TerminatedBySupervisorIsStopped ==
  [][\A s \in Names : \A r \in LaunchersOf(s) :
       (LauncherEnds(r) /\ StoppedWith15(r.pid)) => status'[s] = STOPPED]_vars

\* the step is the update of server s by the pass (lines 1055-1088)
PassUpdates(s) ==
  /\ pass.pc = "update"
  /\ servers[pass.idx] = s
  /\ \/ ret'.of = "check_servers_status"
     \/ pass'.pc = "check" /\ pass'.idx = pass.idx + 1
\* status_changes after the step
ChangesAfter == IF ret'.of = "check_servers_status" THEN ret'.val ELSE pass'.changes
EntriesOf(changes, s) == {i \in DOMAIN changes : changes[i][1] = s}

\* C6: when the pass handles a Running definition whose process has ended
\* and no process of its snapshot names the script, it leaves the definition
\* Stopped with no handle and its change list holds exactly one entry for
\* the definition, from Running to Stopped.
DeadProcessReconciledToStopped ==
  [][\A s \in Names :
       (/\ PassUpdates(s)
        /\ pass.prev = RUNNING /\ status[s] = RUNNING
        /\ process[s].kind # "None" /\ ~IsAlive(process[s].pid)
        /\ ~pass.alive /\ pass.found = 0)
         => /\ status'[s] = STOPPED
            /\ process'[s] = None
            /\ Cardinality(EntriesOf(ChangesAfter, s)) = 1
            /\ \E i \in EntriesOf(ChangesAfter, s) :
                 ChangesAfter[i] = <<s, RUNNING, STOPPED>>
            /\ events' = <<<<s, STOPPED>>>>]_vars

\* a pass has just returned one change, Running to Stopped, for a definition
\* whose launched process was killed from outside
DeadProcessReconciledToStoppedSeen ==
  \E s \in Names :
    /\ ret = Returns("check_servers_status", "-", <<<<s, RUNNING, STOPPED>>>>)
    /\ status[s] = STOPPED
    /\ process[s] = None
    /\ \E p \in Pids : procs[p].srv = s /\ procs[p].by = "ext"
    /\ \A p \in Pids : ~IsAlive(p)

\* C7: a pass reports only real changes: a tuple it appends has previous
\* different from new and comes with exactly one notification; a definition
\* whose status it does not change gets no tuple, no notification and no
\* write of the registry file.
PassReportsOnlyRealChanges ==
  [][\A s \in Names :
       PassUpdates(s) =>
         /\ status'[s] # status[s] =>
              /\ Len(ChangesAfter) = Len(pass.changes) + 1
              /\ ChangesAfter[Len(ChangesAfter)][1] = s
              /\ ChangesAfter[Len(ChangesAfter)][2] # ChangesAfter[Len(ChangesAfter)][3]
              /\ Len(events') = 1
         /\ status'[s] = status[s] =>
              /\ ChangesAfter = pass.changes
              /\ events' = <<>>
              /\ saved' = saved]_vars

\* C8: a definition whose status is Stopped or Error has no process handle.
StoppedOrErrorHasNoHandle ==
  \A s \in Names : status[s] \in {STOPPED, ERROR} => process[s] = None

\* C9: a definition whose status is Running has a process handle.
RunningHasHandle ==
  \A s \in Names : status[s] = RUNNING => process[s] # None

\* the changes of status of the lifecycle state machine
LifecycleEdges ==
  { <<STOPPED, STARTING>>, <<ERROR, STARTING>>, <<STARTING, RUNNING>>,
    <<RUNNING, STOPPING>>, <<STOPPING, STOPPED>>, <<RUNNING, ERROR>>,
    <<STOPPED, ERROR>>, <<STARTING, ERROR>>, <<STARTING, STOPPING>>,
    <<RUNNING, STOPPED>> }

\* C10: without reconciliation, the status of a definition changes only along
\* the lifecycle state machine.
StatusFollowsLifecycle ==
  [][\A s \in Names :
       status'[s] # status[s] => <<status[s], status'[s]>> \in LifecycleEdges]_vars

\* C11: while a launcher thread or a stop thread of a definition is between
\* its first and its last write, a reconciliation pass writes neither the
\* status nor the handle of that definition: during a stop it does not rebind
\* the handle or set Running, during a start it does not set Stopped.
PassSerializedPerName ==
  [][\A s \in Names :
       (PassUpdates(s) /\ (StoppersOf(s) # {} \/ LaunchersOf(s) # {}))
         => /\ status'[s] = status[s]
            /\ process'[s] = process[s]]_vars

\* the pass binds the handle of s to a found process in this step
PassRebinds(s) ==
  /\ PassUpdates(s)
  /\ process'[s] # process[s]
  /\ process'[s].kind = "Dummy"
\* q is a child in a group of script processes (lines 1165-1183): the
\* process that spawned it is itself a live python process naming the script
ChildOfGroup(q, s) ==
  LET parent == procs[q].ppid
  IN /\ parent # 0
     /\ IsAlive(parent)
     /\ procs[parent].name = "python"
     /\ MatchesScript(parent, s)

\* C12: when the pass finds script processes for a definition without a live
\* handle, it binds the handle to the root of a parent/child group of them,
\* never to a child, and sets the status to Running.
PassRebindsToGroupRoot ==
  [][\A s \in Names :
       PassRebinds(s) => /\ ~ChildOfGroup(process'[s].pid, s)
                         /\ status'[s] = RUNNING]_vars

\* the processes of the tree under root, root included, that are alive: the
\* descendants are followed through the pid of the process that spawned them
RECURSIVE TreeOf(_, _)
TreeOf(S, n) ==
  LET kids == {p \in Pids : procs[p].st # "free" /\ procs[p].ppid \in S}
  IN IF n = 0 \/ kids \subseteq S THEN S ELSE TreeOf(S \cup kids, n - 1)
AliveInTree(root) == {p \in TreeOf({root}, MaxPid) : IsAlive(p)}

\* C17: when a stop thread that signalled the tracked process writes Stopped,
\* no process of the tree of that process, root or child, is alive, whether
\* or not the command lines of the children name the script.
StopLeavesNoProcessOfTree ==
  [][\A s \in Names : \A r \in StoppersOf(s) :
       (/\ StopperEnds(r)
        /\ r.pid # 0
        /\ procs[r.pid].st = "dead"
        /\ procs[r.pid].by \in {"term", "kill"})
         => AliveInTree(r.pid) = {}]_vars

\* C13: a pass that was started handles every definition of the registry:
\* a failing query of the process of a definition counts as not alive, and
\* the call ends only after the update of the last definition.
PassHandlesEveryDefinition ==
  [][(ret'.of \in {"check_servers_status", "check_servers_status raises"})
       => (pass.pc = "update" /\ pass.idx = Len(servers))]_vars

\* C14: a failed start leaves the definition in Error with no handle and
\* notifies the listener: when start_server finds no script file it returns
\* failure and spawns nothing; when the launcher thread cannot spawn the
\* process its handler does the same.  The status is not left at Stopped or
\* Starting.
FailedStartLeavesError ==
  [][\A s \in Names :
       /\ (/\ Called("start_server", s)
           /\ status[s] \in {STOPPED, ERROR}
           /\ ret'.val = FALSE)
            => /\ status'[s] = ERROR
               /\ process'[s] = None
               /\ events' = <<<<s, ERROR>>>>
               /\ launchers' = launchers
               /\ procs' = procs
       /\ \A r \in LaunchersOf(s) :
            (r.pc = "exc" /\ r.pid = 0 /\ launchers' = launchers (-) One(r))
              => /\ status'[s] = ERROR
                 /\ process'[s] = None
                 /\ events' = <<<<s, ERROR>>>>]_vars

\* the launcher r of s spawns process p in this step
Spawns(r, p) ==
  /\ r.pc = "spawn"
  /\ ~IsAlive(p)
  /\ launchers' = Move(launchers, r, [r EXCEPT !.pc = "read", !.pid = p])

\* C15: an accepted start_server on a Stopped or Error definition sets
\* Starting and notifies the listener before it returns, and spawns nothing
\* itself; Running is written by the launcher thread that start created, in
\* the step that spawned the process and assigned the handle, with its own
\* notification: Starting is notified before Running.
StartingBeforeRunning ==
  [][\A s \in Names :
       /\ (/\ Called("start_server", s)
           /\ status[s] \in {STOPPED, ERROR}
           /\ ret'.val = TRUE)
            => /\ status'[s] = STARTING
               /\ events' = <<<<s, STARTING>>>>
               /\ launchers' = launchers (+) One(NewLauncher(s))
               /\ process' = process
               /\ procs' = procs
       /\ \A r \in LaunchersOf(s) : \A p \in Pids :
            Spawns(r, p)
              => /\ status'[s] = RUNNING
                 /\ process'[s] = Popen(p)
                 /\ procs'[p].st = "alive"
                 /\ events' = <<<<s, RUNNING>>>>]_vars

\* the launcher has just spawned the process of a definition that a start
\* accepted from Stopped had set to Starting
StartingBeforeRunningSeen ==
  \E s \in Names : \E r \in LaunchersOf(s) :
    /\ r.pc = "read"
    /\ process[s] = Popen(r.pid)
    /\ IsAlive(r.pid)
    /\ status[s] = RUNNING
    /\ events = <<<<s, RUNNING>>>>

\* a stop thread of s has written Stopped, cleared the handle and notified
StopCompleted(s) ==
  /\ status[s] = STOPPED
  /\ process[s] = None
  /\ events = <<<<s, STOPPED>>>>

\* C16: every accepted stop runs to completion when its thread is scheduled:
\* whenever a stop thread exists for a definition, a state follows in which
\* Stopped is set, the handle is cleared and the listener was notified of
\* Stopped, and the last step of a stop thread writes exactly that,
\* whichever path the thread took.
AcceptedStopCompletes ==
  /\ \A s \in Names : (StoppersOf(s) # {}) ~> StopCompleted(s)
  /\ [][\A s \in Names : \A r \in StoppersOf(s) :
          (r.pc = "fin" /\ stoppers' = stoppers (-) One(r))
            => StopCompleted(s)']_vars

\* a stop completed after it had to force-kill the tracked process
AcceptedStopCompletesSeen ==
  \E s \in Names :
    /\ StopCompleted(s)
    /\ StoppersOf(s) = {}
    /\ ret = NoRet
    /\ \E p \in Pids : procs[p].st = "dead" /\ procs[p].by = "kill" /\ procs[p].srv = s

\* C18: the restart thread created for a Running or Starting definition
\* calls stop_server, reads the status at most 30 times and ends only by
\* calling start_server for the same name.
GuiRestartAlwaysStarts ==
  [][/\ restarter.polls <= MaxAttempts
     /\ (restarter.pc # "idle" /\ restarter'.pc = "idle")
          => /\ restarter.pc = "start"
             /\ Called("start_server", restarter.name)]_vars

\* C19: restart_server composes stop-then-start: when the stop thread of a
\* stop requested by restart_server completes, its notification runs
\* on_stop_complete, which restores the listener and invokes start_server
\* for the same name, so the definition leaves Stopped for Starting (or
\* Error when the script is gone).
RestartServerStartsAfterStop ==
  [][\A s \in Names : \A r \in StoppersOf(s) :
       (/\ callback = OnStopComplete
        /\ r.pc = "fin"
        /\ stoppers' = stoppers (-) One(r))
         => /\ status'[s] \in {STARTING, ERROR}
            /\ callback' = Listener]_vars

\* no two definitions of the list have the same name
UniqueNames(reg) ==
  \A i, j \in 1..Len(reg) : reg[i].name = reg[j].name => i = j

\* C20: after any sequence of add_server, update_server, remove_server and
\* startup imports no two definitions of the registry have the same name,
\* in memory and in the file; add_server with a taken name and update_server
\* renaming to a taken name return False and add no entry.
RegistryNamesUnique ==
  /\ [](UniqueNames(registry) /\ UniqueNames(regfile))
  /\ [][\A n \in RegNames :
          /\ (ret'.of = "add_server" /\ ret'.name = n /\ NameTaken(registry, n))
               => /\ ret'.val = FALSE
                  /\ registry' = registry
                  /\ regfile' = regfile
          /\ (ret'.of = "update_server" /\ ret'.name = n /\ ret'.val = FALSE)
               => /\ Len(registry') = Len(registry)
                  /\ \A i \in 1..Len(registry) : registry'[i].name = registry[i].name
                  /\ regfile' = regfile]_vars

\* a rename to the name of another definition has just been refused with
\* two definitions in the registry
RegistryNamesUniqueSeen ==
  /\ ret.of = "update_server"
  /\ ret.val = FALSE
  /\ Len(registry) = 2
  /\ GetServer(registry, ret.name) # 0

\* C21: whenever add_server, remove_server or update_server returns True,
\* the registry file holds the full list of definitions, status included, as
\* it is at that moment.
SuccessfulChangeIsPersisted ==
  [][(ret'.of \in {"add_server", "remove_server", "update_server"} /\ ret'.val = TRUE)
       => /\ regfile' = SaveServers(registry')
          /\ saved' = status']_vars

\* the file left by add_server(e) followed by remove_server(e.name) on the
\* list reg (lines 258-262, then lines 328-331)
FileAfterAddRemove(reg, e) ==
  SaveServers(SelectSeq(AddServerTo(reg, e), LAMBDA x : x.name # e.name))

\* C22: in every registry state reachable after startup, imports included,
\* add_server of a definition whose name is free followed by remove_server
\* of that name leaves the registry file with the set of entries it had
\* before the add.
AddThenRemoveRestoresFile ==
  boot = "run" =>
    \A e \in {d \in Definitions : d.source = "none"} :
      ~NameTaken(registry, e.name)
        => {FileAfterAddRemove(registry, e)[i] : i \in 1..Len(registry)}
             = {regfile[i] : i \in 1..Len(regfile)}

\* the declaration of name n in the items of a file, as a set
DeclaredIn(items, n) == {items[i] : i \in {j \in 1..Len(items) : items[j].name = n}}

\* C23: the startup import is a read-only merge: the definitions the list
\* had stay where they were, unchanged, no name is added twice, and every
\* definition added carries the command and the args of the declaration it
\* comes from, verbatim, with the file it comes from as the source; a name
\* declared by both files comes from the Cursor file when that declaration
\* was added.
ImportIsReadOnlyMerge ==
  res.kind = "import" =>
    /\ Len(res.reg) >= Len(arg.reg)
    /\ \A i \in 1..Len(arg.reg) : res.reg[i] = arg.reg[i]
    /\ \A i, j \in 1..Len(res.reg) : res.reg[i].name = res.reg[j].name => i = j
    /\ \A i \in (Len(arg.reg) + 1)..Len(res.reg) :
         LET e == res.reg[i]
             from == IF e.original.source = "cursor" THEN arg.cursor ELSE arg.claude
         IN /\ e.original.source \in {"cursor", "claude"}
            /\ \E d \in DeclaredIn(from, e.name) :
                 /\ e.original.args = d.args
                 /\ e.original.command = d.command
                 /\ "args" \in d.keys

\* a definition was added from the Cursor file, with its directory, and the
\* Claude Desktop file declares the same name with other args
ImportIsReadOnlyMergeSeen ==
  /\ res.kind = "import"
  /\ Len(res.reg) = Len(arg.reg) + 1
  /\ Len(arg.reg) = 1
  /\ res.reg[2].original.source = "cursor"
  /\ res.reg[2].original.command = "uv"
  /\ Len(res.reg[2].script) = 2
  /\ arg.claude # <<>>
  /\ arg.claude[1].name = res.reg[2].name
  /\ arg.claude[1].args # res.reg[2].original.args

\* the file holds the text of some list of statuses
WellFormed(text) == \E st \in [Names -> {STOPPED, RUNNING, STARTING, STOPPING, ERROR}] :
                      text = FileText(st, 1)

\* C24: writes of the registry file are atomic for concurrent readers and
\* writers: whatever the interleaving of the saves of the GUI thread, the
\* launcher threads and the stop threads, the file on the disk is never
\* truncated or a mix of two texts.
RegistryFileNeverMalformed == WellFormed(disk)

\* the matching processes of the input
Matching == SelectSeq(arg.list, LAMBDA x : x.match)

\* a and b are a parent and its child, both among the matching processes
Linked(a, b) ==
  \E i \in 1..Len(Matching) :
    \/ Matching[i].pid = a /\ Matching[i].ppid = b
    \/ Matching[i].pid = b /\ Matching[i].ppid = a

\* the processes connected to those of S by at most n links
RECURSIVE Connected(_, _)
Connected(S, n) ==
  IF n = 0 THEN S
  ELSE Connected(S \cup {b \in PidsOf(Matching) : \E a \in S : Linked(a, b)}, n - 1)

\* the number of parent/child groups of the matching processes
Components == {Connected({a}, MaxProcs) : a \in PidsOf(Matching)}

\* C25: for every list of processes with distinct pids, cycles and
\* self-parents included, _group_related_processes returns a partition of
\* the list: every process is in exactly one group, no group is empty, and
\* two processes share a group exactly when parent/child links inside the
\* list connect them.
GroupsArePartition ==
  res.kind = "procs" =>
    LET groups == res.groups
        GroupSet(g) == {groups[g][i] : i \in 1..Len(groups[g])}
    IN /\ \A g \in 1..Len(groups) : groups[g] # <<>>
       /\ \A a \in PidsOf(Matching) :
            Cardinality({<<g, i>> \in (1..Len(groups)) \X (1..MaxProcs) :
                           i <= Len(groups[g]) /\ groups[g][i] = a}) = 1
       /\ \A a, b \in PidsOf(Matching) :
            (\E g \in 1..Len(groups) : {a, b} \subseteq GroupSet(g))
              <=> b \in Connected({a}, MaxProcs)

\* the matching process with pid a
MatchingProc(a) == CHOOSE x \in {Matching[i] : i \in 1..Len(Matching)} : x.pid = a

\* following the parents of a leads, in at most n links, to a process whose
\* parent is not among the matching processes
RECURSIVE UnderRoot(_, _)
UnderRoot(a, n) ==
  \/ MatchingProc(a).ppid \notin PidsOf(Matching)
  \/ n > 0 /\ UnderRoot(MatchingProc(a).ppid, n - 1)

\* the matching processes are k disjoint trees
Trees(k) ==
  /\ Cardinality({a \in PidsOf(Matching) :
                    MatchingProc(a).ppid \notin PidsOf(Matching)}) = k
  /\ \A a \in PidsOf(Matching) : UnderRoot(a, MaxProcs)

\* C26: _group_related_processes returns exactly one group for a list that
\* is a single tree, whose root has its parent outside the list, and
\* exactly two groups for a list that is two disjoint trees.
TreesAreGroups ==
  res.kind = "procs" =>
    /\ Trees(1) => Len(res.groups) = 1
    /\ Trees(2) => Len(res.groups) = 2

\* two trees, one of them a parent listed after its child, gave two groups
TreesAreGroupsSeen ==
  /\ res.kind = "procs"
  /\ Trees(2)
  /\ Len(Matching) = 3
  /\ \E i, j \in 1..Len(Matching) : i < j /\ Matching[i].ppid = Matching[j].pid
  /\ Len(res.groups) = 2

\* C27: check_duplicate_processes reports a server as duplicated exactly
\* when the processes matching its script form more than one parent/child
\* group: a worker with the children it forked is never reported, and
\* fewer than two matching processes are never reported.
DuplicateIffSeveralGroups ==
  res.kind = "procs" =>
    /\ res.duplicates # <<>> <=> Cardinality(Components) > 1
    /\ Len(Matching) < 2 => res.duplicates = <<>>

\* the files of the directory dir that server wrote
OwnLogs(dir, server) == {f \in dir : f.owner = server}

\* C28: given N log files of one server, N greater than the cap of 10, and
\* no deletion failing, _rotate_log_files keeps exactly the 10 most recently
\* modified files of that server and deletes exactly the N - 10 oldest.
RotationKeepsNewestOfServer ==
  (res.kind = "logs" /\ Cardinality(OwnLogs(arg.dir, arg.server)) > max_files) =>
    LET before == OwnLogs(arg.dir, arg.server)
        after == OwnLogs(res.rotated, arg.server)
    IN /\ after \subseteq before
       /\ Cardinality(after) = max_files
       /\ \A f \in before \ after : \A g \in after : f.mtime <= g.mtime

\* C29: given log files of several servers, more than the global cap of
\* 100 in all, and no deletion failing, _limitar_total_logs keeps exactly
\* the 100 most recently modified files and deletes the oldest ones, whoever
\* owns them.
GlobalLimitKeepsNewest ==
  (res.kind = "logs" /\ Cardinality(arg.dir) > max_total) =>
    /\ res.limited \subseteq arg.dir
    /\ Cardinality(res.limited) = max_total
    /\ \A f \in arg.dir \ res.limited : \A g \in res.limited : f.mtime <= g.mtime

\* files of two servers were deleted and files of both were kept
GlobalLimitKeepsNewestSeen ==
  /\ res.kind = "logs"
  /\ Cardinality(arg.dir) > max_total + 1
  /\ Cardinality(res.limited) = max_total
  /\ \E f, g \in arg.dir \ res.limited :
       /\ f.owner # g.owner
       /\ \E h, k \in res.limited : h.owner = f.owner /\ k.owner = g.owner

\* C30: after any sequence of launches, once a launch has created its log
\* file, no server has more than 10 log files and the directory has no more
\* than 100.
LogCapsHold ==
  logs # {} =>
    /\ \A server \in LaunchServers : Cardinality(OwnLogs(logs, server)) <= max_files
    /\ Cardinality(logs) <= max_total

\* the files the rotation of arg.server has to delete: the oldest ones of
\* the server beyond max_files
ServerExcess ==
  LET own == {f \in arg.dir : IsLogOf(arg.server, f)}
  IN {f \in own : Cardinality({g \in own : OlderFirst(arg.order, g, f)})
                    < Cardinality(own) - max_files}

AddLogReturns(t) == buffer.pc[t] # "idle" /\ buffer'.pc[t] = "idle"

\* C32: when _add_log has returned and no call is going on, the buffer of
\* the server holds no more than 1000 entries, and when a single thread has
\* appended the entries it is the most recent min(n, 1000) of them in order.
AddLogKeepsLastThousand ==
  [][\A t \in AddLogThreads :
       (AddLogReturns(t) /\ \A u \in AddLogThreads : buffer'.pc[u] = "idle") =>
         /\ Len(buffer'.logs) <= max_logs
         /\ buffer'.who = {t} => buffer'.logs = LastEntries(buffer'.added)]_vars

\* the launcher thread alone has added more than 1000 entries and its last
\* call has dropped the oldest one
AddLogKeepsLastThousandSeen ==
  /\ buffer.who = {"launcher"}
  /\ \A u \in AddLogThreads : buffer.pc[u] = "idle"
  /\ buffer.added = max_logs + 2
  /\ Len(buffer.logs) = max_logs
  /\ buffer.logs[1] = 3

\* the launcher threads of server s
LaunchCount(s) ==
  LET rs == {r \in Threads(launchers) : r.srv = s}
      RECURSIVE Sum(_)
      Sum(S) == IF S = {} THEN 0
                ELSE LET r == CHOOSE x \in S : TRUE
                     IN CopiesIn(r, launchers) + Sum(S \ {r})
  IN Sum(rs)

\* the live processes this run spawned for server s
SpawnedAlive(s) == {p \in Pids : IsAlive(p) /\ procs[p].child /\ procs[p].srv = s}

\* C33: whatever the interleaving of the start requests of the GUI thread
\* and of the restart thread for a name, at most one is accepted until the
\* definition is Stopped or Error again: a definition never has more than
\* one launcher thread nor more than one spawned process.
OneLaunchPerDefinition ==
  \A s \in Names : LaunchCount(s) <= 1 /\ Cardinality(SpawnedAlive(s)) <= 1

\* launcher thread r ends in this step, writing the status and the handle
LauncherWritesExit(r) ==
  /\ r.pc \in {"fin", "exc"}
  /\ launchers' = launchers (-) One(r)

\* another launch of the server of r goes on: a launcher thread that has
\* not spawned yet or whose process is alive
LaterLaunch(r) ==
  \E q \in Threads(launchers) :
    /\ q.srv = r.srv
    /\ q # r
    /\ q.pc = "spawn" \/ IsAlive(q.pid)

\* C34: the exit handler of an earlier launch never overwrites the state of
\* a later launch of the definition: when the launcher thread of a process
\* that has ended writes its exit while a later launch goes on, the status
\* and the handle stay as they are.
EarlierExitKeepsLaterLaunch ==
  [][\A r \in Threads(launchers) :
       (LauncherWritesExit(r) /\ r.pid # 0 /\ ~IsAlive(r.pid) /\ LaterLaunch(r)) =>
         /\ status'[r.srv] = status[r.srv]
         /\ process'[r.srv] = process[r.srv]]_vars

\* C35: a stop never undoes a later start of the definition.  The status
\* is Iniciando while a stop thread runs only when a start was accepted
\* after the stop request; the last write of the stop thread then leaves
\* the status and the handle of that launch as they are.
StopKeepsLaterLaunch ==
  [][\A r \in Threads(stoppers) :
       (r.pc = "fin" /\ stoppers' = stoppers (-) One(r) /\ status[r.srv] = STARTING) =>
         /\ status'[r.srv] = STARTING
         /\ process'[r.srv] = process[r.srv]]_vars

\* remove_server returns success for n in this step
Removed(n) == ret' = Returns("remove_server", n, TRUE)

\* the definition n has a worker: a launcher thread or a live process
HasWorker(n) ==
  \/ \E r \in Threads(launchers) : r.srv = n
  \/ \E p \in Pids : IsAlive(p) /\ procs[p].srv = n

\* C36: remove_server never orphans a live worker: when it returns success
\* for a definition that is Starting, Running or Stopping, its worker has
\* been stopped or a stop thread is stopping it, and no thread of the
\* definition puts it back into the registry or the persisted file later.
RemoveStopsWorker ==
  [][\A n \in Names :
       /\ (Removed(n) /\ status[n] \in {STARTING, RUNNING, STOPPING}) =>
            \/ \E r \in Threads(stoppers') : r.srv = n
            \/ ~HasWorker(n)'
       /\ ~NameTaken(registry, n) => ~NameTaken(registry', n)
       /\ ~NameTaken(regfile, n) => ~NameTaken(regfile', n)]_vars


\* C37: an update_server that fails because the new name is taken leaves the
\* definition it was called for as it was, whatever the order of the
\* properties in the patch, and leaves the persisted registry as it was
FailedRenameChangesNothing ==
  [][\A n \in RegNames :
       (/\ ret'.of = "update_server" /\ ret'.name = n /\ ret'.val = FALSE
        /\ GetServer(registry, n) # 0)
         => /\ registry' = registry
            /\ regfile' = regfile]_vars


\* the files of the directory dir that other servers than server wrote
OtherLogs(dir, server) == {f \in dir : f.owner # server}

\* C38: the rotation of the log files of one server counts and deletes only
\* files that launches of this server created: with no more files in the
\* directory than the global limit allows, every file of another server is
\* still there after _rotate_log_files, also when the name of the other
\* server is the name of this one followed by an underscore and more.
RotationKeepsOtherServers ==
  (res.kind = "logs" /\ Cardinality(arg.dir) <= max_total) =>
    /\ OtherLogs(res.rotated, arg.server) = OtherLogs(arg.dir, arg.server)
    /\ Cardinality(OwnLogs(arg.dir, arg.server)) <= max_files
         => res.rotated = arg.dir


\* C39: restart_server replaces the listener of the status changes only for
\* the time of its stop: when no stop thread is left, the listener that was
\* registered before the call is registered again, so the notifications of
\* the later status changes reach it.
ListenerIsBackAfterRestart ==
  Threads(stoppers) = {} => callback = Listener


\* C40: when the pass handles a Running definition whose handle's pid is a
\* live process that is no zombie, it leaves the status and the handle as
\* they are (the handle is not bound again to a process of the snapshot),
\* adds nothing to its change list and notifies nobody; and the check by pid
\* of a handle whose process is a zombie gives not alive.
LiveRunningLeftAlone ==
  [][\A s \in Names :
       /\ (/\ PassUpdates(s)
           /\ pass.prev = RUNNING /\ status[s] = RUNNING
           /\ pass.alive
           /\ process[s].kind # "None" /\ IsAlive(process[s].pid))
            => /\ status'[s] = RUNNING
               /\ process'[s] = process[s]
               /\ ChangesAfter = pass.changes
               /\ events' = <<>>
               /\ saved' = saved
       /\ (/\ pass.pc = "check" /\ pass'.pc = "update"
           /\ servers[pass.idx] = s
           /\ process[s].kind # "None" /\ process[s].pid # 0
           /\ procs[process[s].pid].st = "dead")
            => ~pass'.alive]_vars

\* a pass has just returned no change for a Running definition whose Popen
\* handle is a live process that the snapshot of the pass also held
LiveRunningLeftAloneSeen ==
  \E s \in Names :
    /\ ret = Returns("check_servers_status", "-", <<>>)
    /\ status[s] = RUNNING
    /\ saved[s] = RUNNING
    /\ process[s].kind = "Popen"
    /\ IsAlive(process[s].pid)
    /\ procs[process[s].pid].name = "python"
    /\ MatchesScript(process[s].pid, s)

=============================================================================
